---------------------------- MODULE Spec2Model ----------------------------
(***************************************************************************)
(* Verification model of the HDR gallery's colour pipeline and container   *)
(* codec layer (image-processing module and tonemap-worker.js).            *)
(*                                                                         *)
(* The module holds several specifications, one per component.  Every      *)
(* specification owns a group of variables; the variables of the other     *)
(* groups stay at their idle value.                                        *)
(***************************************************************************)
EXTENDS Integers, Sequences, FiniteSets, TLC

VARIABLES
    \* ---- EXR ZIP predictor (exrUnpredict) ----
    up_orig,      \* the original byte sequence b
    up_raw,       \* the buffer handed to / returned by exrUnpredict
    up_pc         \* "start" | "encoded" | "done"

up_vars == <<up_orig, up_raw, up_pc>>

(***************************************************************************)
(* Shared helpers                                                          *)
(***************************************************************************)
Min(a, b) == IF a <= b THEN a ELSE b
Max(a, b) == IF a >= b THEN a ELSE b

\* All sequences over S whose length lies in lo..hi.
SeqsOf(S, lo, hi) == UNION { [1..n -> S] : n \in lo..hi }

\* JS `x & 0xFF` on a (possibly negative) int32: low byte, two's complement.
And255(x) == x % 256

(***************************************************************************)
(* EXR ZIP predictor                                                       *)
(***************************************************************************)
\* Longest byte sequence handed to the predictor.
MaxPredLen == 4

\* Byte values used in predictor inputs (wrap-around cases around 0/128/255).
PredBytes == {0, 1, 127, 128, 255}

\* Reference encoder (ImfZipCompressor.cpp, as described at part_000:798-802):
\* reorder into [even-position bytes | odd-position bytes] ...
RefInterleave(b) ==
    LET n    == Len(b)
        half == (n + 1) \div 2
    IN  [i \in 1..n |-> IF i <= half THEN b[2 * (i - 1) + 1]
                                     ELSE b[2 * (i - half - 1) + 2]]

\* ... then byte-wise delta: d[0] = t[0], d[i] = (t[i] - t[i-1] + 128) mod 256.
RefDelta(t) ==
    [i \in 1..Len(t) |-> IF i = 1 THEN t[1] ELSE (t[i] - t[i - 1] + 128) % 256]

RefPredict(b) == RefDelta(RefInterleave(b))

\* First loop of exrUnpredict: running sum, raw[i] = (raw[i] + prev - 128) & 0xFF.
RECURSIVE UndoDelta(_, _, _)
UndoDelta(raw, i, prev) ==
    IF i > Len(raw) THEN raw
    ELSE LET v == And255(raw[i] + prev - 128)
         IN  UndoDelta([raw EXCEPT ![i] = v], i + 1, v)

\* Second part of exrUnpredict: tmp = copy; raw[i*2] = tmp[i] for i < ceil(n/2),
\* raw[i*2+1] = tmp[half+i] for i < floor(n/2).   (1-based indices here.)
Deinterleave(tmp, half) ==
    LET n == Len(tmp)
    IN  [j \in 1..n |-> IF (j - 1) % 2 = 0 THEN tmp[((j - 1) \div 2) + 1]
                                           ELSE tmp[half + ((j - 1) \div 2) + 1]]

\* Mutant: half computed with floor instead of ceil.
exrUnpredict_floorHalf(raw) ==
    LET n == Len(raw)
        d == UndoDelta(raw, 2, raw[1])
        half == n \div 2
    IN  [j \in 1..n |-> IF (j - 1) % 2 = 0
                        THEN d[Min(((j - 1) \div 2) + 1, n)]
                        ELSE d[Min(half + ((j - 1) \div 2) + 1, n)]]

exrUnpredict(raw) ==
    LET n == Len(raw)
        d == UndoDelta(raw, 2, raw[1])
    IN  Deinterleave(d, (n + 1) \div 2)

up_Init ==
    /\ up_orig \in SeqsOf(PredBytes, 1, MaxPredLen)
    /\ up_raw = <<>>
    /\ up_pc = "start"

up_Idle ==
    /\ up_orig = <<>>
    /\ up_raw = <<>>
    /\ up_pc = "idle"

\* Test-fixture generation: the reference interleave + delta encode.
RefEncode ==
    /\ up_pc = "start"
    /\ up_raw' = RefPredict(up_orig)
    /\ up_pc' = "encoded"
    /\ UNCHANGED up_orig

\* The decoder's unpredict step on the (inflated) chunk.
Unpredict ==
    /\ up_pc = "encoded"
    /\ up_raw' = exrUnpredict(up_raw)
    /\ up_pc' = "done"
    /\ UNCHANGED up_orig

\* C2: exrUnpredict applied to the reference predictor encoding of b returns
\* exactly b, for every byte sequence of length >= 1 (odd and even lengths).
C2_UnpredictRoundTrip ==
    up_pc = "done" => up_raw = up_orig

\* An odd-length input with wrap-around in the delta has been decoded.
C2_Witness ==
    /\ up_pc = "done"
    /\ Len(up_orig) = 3
    /\ up_orig = <<255, 0, 128>>
    /\ up_raw = up_orig


(***************************************************************************)
(* PNG chunk encoder / chunk reader                                        *)
(***************************************************************************)
\* Largest image width / height fed to the PNG builders.
MaxW == 2
MaxH == 2

\* JS read of a typed array element: `undefined` outside the buffer.
Undef == -1
At(d, i) == IF i >= 0 /\ i < Len(d) THEN d[i + 1] ELSE Undef
\* The same read inside a bitwise expression (undefined coerces to 0).
B(d, i) == IF i >= 0 /\ i < Len(d) THEN d[i + 1] ELSE 0
\* Uint8Array.prototype.slice(from, to), clamped to the buffer.
Slice(d, from, to) ==
    LET lo == Min(Max(from, 0), Len(d))
        hi == Min(Max(to, lo), Len(d))
    IN  [k \in 1..(hi - lo) |-> d[lo + k]]

RECURSIVE XorN(_, _, _)
XorN(a, b, n) ==
    IF n = 0 THEN 0 ELSE ((a + b) % 2) + 2 * XorN(a \div 2, b \div 2, n - 1)

\* 32-bit words are kept as <<high 16 bits, low 16 bits>>.
Xor32(x, y) == <<XorN(x[1], y[1], 16), XorN(x[2], y[2], 16)>>
Not32(x) == <<65535 - x[1], 65535 - x[2]>>
Shr32(x, n) ==
    LET p == 2 ^ n
    IN  <<x[1] \div p, (x[2] \div p) + (x[1] % p) * (65536 \div p)>>
Word32Bytes(x) == <<x[1] \div 256, x[1] % 256, x[2] \div 256, x[2] % 256>>

\* DataView.setUint32(offset, n) (big-endian), n < 2^31 in the model.
U32BE(n) == <<(n \div 16777216) % 256, (n \div 65536) % 256, (n \div 256) % 256, n % 256>>
\* (d[o]<<24 | d[o+1]<<16 | d[o+2]<<8 | d[o+3]) >>> 0
ReadU32BE(d, o) == B(d, o) * 16777216 + B(d, o + 1) * 65536 + B(d, o + 2) * 256 + B(d, o + 3)

\* _CRC32_TABLE: c = (c & 1) ? (0xedb88320 ^ (c >>> 1)) : (c >>> 1), 8 times.
CRC_POLY == <<60856, 33568>>
RECURSIVE CrcTableEntry(_, _)
CrcTableEntry(c, j) ==
    IF j = 0 THEN c
    ELSE CrcTableEntry(IF c[2] % 2 = 1 THEN Xor32(CRC_POLY, Shr32(c, 1)) ELSE Shr32(c, 1), j - 1)
CRC32_TABLE == [i \in 0..255 |-> CrcTableEntry(<<0, i>>, 8)]

\* crc32(data, seed): crc = ~seed; per byte crc = T[(crc ^ b) & 0xff] ^ (crc >>> 8);
\* result (crc ^ 0xffffffff) >>> 0.
RECURSIVE CrcLoop(_, _, _)
CrcLoop(data, i, crc) ==
    IF i > Len(data) \/ crc[2] < 0 THEN crc      \* (the test also forces crc)
    ELSE CrcLoop(data, i + 1,
                 Xor32(CRC32_TABLE[XorN(crc[2] % 256, data[i], 8)], Shr32(crc, 8)))
crc32(data, seed) == Not32(CrcLoop(data, 1, Not32(seed)))

T_IHDR == <<73, 72, 68, 82>>
T_cICP == <<99, 73, 67, 80>>
T_IDAT == <<73, 68, 65, 84>>
T_IEND == <<73, 69, 78, 68>>
T_ftyp == <<102, 116, 121, 112>>
PNG_SIG == <<137, 80, 78, 71, 13, 10, 26, 10>>

\* makeChunk(type, data): length, type, data, CRC-32 over type then data (chained).
makeChunk(type, data) ==
    U32BE(Len(data)) \o type \o data \o Word32Bytes(crc32(data, crc32(type, <<0, 0>>)))

\* Adler-32 running sums of deflateRaw.
RECURSIVE AdlerLoop(_, _, _, _)
AdlerLoop(data, i, s1, s2) ==
    IF i > Len(data) \/ s1 + s2 < 0 THEN <<s1, s2>>
    ELSE LET n1 == (s1 + data[i]) % 65521
         IN  AdlerLoop(data, i + 1, n1, (s2 + n1) % 65521)
Adler(data) == AdlerLoop(data, 1, 1, 0)

\* CompressionStream('deflate-raw'): one final stored block (a stream the
\* compressor may emit; the codec pair is lossless).
DeflateRawStream(data) ==
    LET n == Len(data)
    IN  <<1, n % 256, n \div 256, 255 - (n % 256), 255 - (n \div 256)>> \o data

\* deflateRaw: zlib header 0x78 0x9c, payload, Adler-32 trailer (s2 then s1, big-endian).
deflateRaw(data) ==
    LET a == Adler(data)
    IN  <<120, 156>> \o DeflateRawStream(data)
        \o <<(a[2] \div 256) % 256, a[2] % 256, (a[1] \div 256) % 256, a[1] % 256>>

\* DecompressionStream('deflate'): zlib header check, stored block, Adler-32 check.
\* Returns [ok |-> TRUE, data |-> ...] or [ok |-> FALSE] (the stream errors).
InflateZlib(z) ==
    LET n == B(z, 3) + 256 * B(z, 4)
        body == Slice(z, 7, 7 + n)
        a == Adler(body)
    IN  IF /\ Len(z) >= 11
           /\ z[1] = 120
           /\ (z[1] * 256 + z[2]) % 31 = 0
           /\ z[3] = 1
           /\ B(z, 5) = 255 - z[4] /\ B(z, 6) = 255 - z[5]
           /\ Len(z) = 7 + n + 4
           /\ Slice(z, 7 + n, 11 + n) =
                <<(a[2] \div 256) % 256, a[2] % 256, (a[1] \div 256) % 256, a[1] % 256>>
        THEN [ok |-> TRUE, data |-> body]
        ELSE [ok |-> FALSE, data |-> <<>>]


\* cicp argument: null, or { primaries, transfer }.
CicpNull == [present |-> FALSE, primaries |-> 0, transfer |-> 0]
Cicp(p, t) == [present |-> TRUE, primaries |-> p, transfer |-> t]

\* Mutant: 16-bit samples copied in source (little-endian) byte order.
RawRows_littleEndian(rawPixels, width, height, bytesPerPx) ==
    LET is16 == bytesPerPx >= 6
        inChans == IF bytesPerPx = 4 \/ bytesPerPx = 8 THEN 4 ELSE 3
        outBytesPerPx == inChans * 2
        rowBytes == width * outBytesPerPx
    IN  [k \in 1..(height * (1 + rowBytes)) |->
            LET y == (k - 1) \div (1 + rowBytes)
                col == (k - 1) % (1 + rowBytes)
                x == (col - 1) \div outBytesPerPx
                c == ((col - 1) % outBytesPerPx) \div 2
                lowHalf == ((col - 1) % outBytesPerPx) % 2 = 1
                inBase == (y * width + x) * bytesPerPx
                val == IF is16
                       THEN (B(rawPixels, inBase + c * 2) + 256 * B(rawPixels, inBase + c * 2 + 1)) % 65536
                       ELSE (B(rawPixels, inBase + c) * 257) % 65536
            IN  IF col = 0 THEN 0
                ELSE IF lowHalf THEN val \div 256 ELSE val % 256]

\* The scanline buffer `raw` of buildPNG16: per row a filter byte 0, then every
\* sample as a big-endian uint16 (16-bit LE input, or 8-bit input scaled by 257).
RawRows(rawPixels, width, height, bytesPerPx) ==
    LET is16 == bytesPerPx >= 6
        inChans == IF bytesPerPx = 4 \/ bytesPerPx = 8 THEN 4 ELSE 3
        outBytesPerPx == inChans * 2
        rowBytes == width * outBytesPerPx
    IN  [k \in 1..(height * (1 + rowBytes)) |->
            LET y == (k - 1) \div (1 + rowBytes)
                col == (k - 1) % (1 + rowBytes)
                x == (col - 1) \div outBytesPerPx
                c == ((col - 1) % outBytesPerPx) \div 2
                lowHalf == ((col - 1) % outBytesPerPx) % 2 = 1
                inBase == (y * width + x) * bytesPerPx
                val == IF is16
                       THEN (B(rawPixels, inBase + c * 2) + 256 * B(rawPixels, inBase + c * 2 + 1)) % 65536
                       ELSE (B(rawPixels, inBase + c) * 257) % 65536
            IN  IF col = 0 THEN 0
                ELSE IF lowHalf THEN val % 256 ELSE val \div 256]

\* buildPNG16: signature, IHDR (bit depth 16), optional cICP, IDAT, IEND.
buildPNG16(rawPixels, width, height, bytesPerPx, cicp) ==
    LET hasAlpha == bytesPerPx = 4 \/ bytesPerPx = 8
        colorType == IF hasAlpha THEN 6 ELSE 2
        compressed == deflateRaw(RawRows(rawPixels, width, height, bytesPerPx))
        ihdr == U32BE(width) \o U32BE(height) \o <<16, colorType, 0, 0, 0>>
    IN  PNG_SIG
        \o makeChunk(T_IHDR, ihdr)
        \o (IF cicp.present
            THEN makeChunk(T_cICP, <<cicp.primaries % 256, cicp.transfer % 256, 0, 1>>)
            ELSE <<>>)
        \o makeChunk(T_IDAT, compressed)
        \o makeChunk(T_IEND, <<>>)

\* Mutant: the chunk is inserted after the IHDR data, before the IHDR CRC.
reinjectCICP_beforeCrc(pngData, cicp) ==
    LET cicpChunk == makeChunk(T_cICP, <<cicp.primaries % 256, cicp.transfer % 256, 0, 1>>)
    IN  Slice(pngData, 0, 29) \o cicpChunk \o Slice(pngData, 29, Len(pngData))

\* reinjectCICP: insert a fresh cICP chunk at byte offset 33.
reinjectCICP(pngData, cicp) ==
    LET cicpChunk == makeChunk(T_cICP, <<cicp.primaries % 256, cicp.transfer % 256, 0, 1>>)
        insertAt == 33
    IN  Slice(pngData, 0, insertAt) \o cicpChunk \o Slice(pngData, insertAt, Len(pngData))

\* decodePixelBuffer, cICP scan: transfer characteristic byte or null (Undef).
RECURSIVE ScanCicpTransfer(_, _)
ScanCicpTransfer(d, o) ==
    IF ~(o < Len(d) - 8) THEN Undef
    ELSE LET len == ReadU32BE(d, o)
             t == Slice(d, o + 4, o + 8)
         IN  IF t = T_cICP THEN At(d, o + 9)
             ELSE IF t = T_IDAT \/ t = T_IEND THEN Undef
             ELSE ScanCicpTransfer(d, o + 12 + len)

\* decodePixelBuffer, IDAT collection: <<number of IDAT chunks, concatenated data>>.
RECURSIVE CollectIDAT(_, _, _)
CollectIDAT(d, offset, acc) ==
    IF ~(offset < Len(d) - 8) THEN acc
    ELSE LET len == ReadU32BE(d, offset)
             t == Slice(d, offset + 4, offset + 8)
             acc2 == IF t = T_IDAT
                     THEN <<acc[1] + 1, acc[2] \o Slice(d, offset + 8, offset + 8 + len)>>
                     ELSE acc
         IN  IF t = T_IEND THEN acc2 ELSE CollectIDAT(d, offset + 12 + len, acc2)

paethPredictor(a, b, c) ==
    LET p == a + b - c
        pa == IF p - a >= 0 THEN p - a ELSE a - p
        pb == IF p - b >= 0 THEN p - b ELSE b - p
        pc == IF p - c >= 0 THEN p - c ELSE c - p
    IN  IF pa <= pb /\ pa <= pc THEN a ELSE IF pb <= pc THEN b ELSE c

\* Scanline reconstruction (filter types 0..4) into the zero-initialised pixels.
RECURSIVE Unfilter(_, _, _, _, _, _)
Unfilter(raw, pixels, width, height, bytesPerPixel, k) ==
    LET rowLen == width * bytesPerPixel
        stride == 1 + rowLen
        y == k \div rowLen
        x == k % rowLen
    IN  IF k >= height * rowLen THEN pixels
        ELSE IF y * stride + 1 + x >= Len(raw)     \* x beyond rowIn.length
             THEN Unfilter(raw, pixels, width, height, bytesPerPixel, k + 1)
        ELSE LET ft == At(raw, y * stride)
                 rb == raw[y * stride + 1 + x + 1]
                 a == IF x >= bytesPerPixel THEN pixels[k - bytesPerPixel + 1] ELSE 0
                 b == IF y > 0 THEN pixels[k - rowLen + 1] ELSE 0
                 c == IF x >= bytesPerPixel /\ y > 0
                      THEN pixels[k - rowLen - bytesPerPixel + 1] ELSE 0
                 v == CASE ft = 1 -> (rb + a) % 256
                        [] ft = 2 -> (rb + b) % 256
                        [] ft = 3 -> (rb + ((a + b) \div 2)) % 256
                        [] ft = 4 -> (rb + paethPredictor(a, b, c)) % 256
                        [] OTHER -> rb
             IN  Unfilter(raw, [pixels EXCEPT ![k + 1] = v], width, height, bytesPerPixel, k + 1)

DecNull == [kind |-> "null", pixels |-> <<>>, width |-> 0, height |-> 0,
            samplesPerPixel |-> 0, transferCharacteristic |-> Undef]
DecError == [DecNull EXCEPT !.kind = "error"]

\* decodePixelBuffer (PNG path; an 'ftyp' file goes to the external AVIF decoder).
decodePixelBuffer(data) ==
    LET isPNG == At(data, 0) = 137 /\ At(data, 1) = 80
        isAVIF == Len(data) > 8 /\ Slice(data, 4, 8) = T_ftyp
        width == ReadU32BE(data, 16)
        height == ReadU32BE(data, 20)
        bitDepth == At(data, 24)
        colorType == At(data, 25)
        samplesPerPixel == IF colorType = 6 THEN 4 ELSE 3
        idat == CollectIDAT(data, 8, <<0, <<>>>>)
        inflated == InflateZlib(idat[2])
        bytesPerPixel == samplesPerPixel * 2
    IN  IF ~isPNG /\ ~isAVIF THEN DecNull
        ELSE IF isAVIF THEN [DecNull EXCEPT !.kind = "avif"]
        ELSE IF Slice(data, 12, 16) # T_IHDR THEN DecNull
        ELSE IF bitDepth # 16 \/ (colorType # 2 /\ colorType # 6) THEN DecNull
        ELSE IF idat[1] = 0 THEN DecNull
        ELSE IF ~inflated.ok THEN DecError
        ELSE [kind |-> "ok",
              pixels |-> Unfilter(inflated.data,
                                  [i \in 1..(width * height * bytesPerPixel) |-> 0],
                                  width, height, bytesPerPixel, 0),
              width |-> width, height |-> height,
              samplesPerPixel |-> samplesPerPixel,
              transferCharacteristic |-> ScanCicpTransfer(data, 8)]


VARIABLES
    \* ---- PNG encode / decode / cICP re-injection ----
    png_in,       \* arguments of buildPNG16: rawPixels, width, height, bytesPerPx, cicp
    png_file,     \* bytes returned by buildPNG16
    png_out,      \* bytes returned by reinjectCICP
    png_tag,      \* cicp argument of reinjectCICP
    png_dec,      \* record returned by decodePixelBuffer
    png_pc        \* "start" | "built" | "reinjected" | "decoded"

png_vars == <<png_in, png_file, png_out, png_tag, png_dec, png_pc>>

\* 16-bit pixels (R, G, B, A) and 8-bit pixels used to fill the source buffer.
Pix16 == { <<0, 0, 0, 65535>>, <<1, 256, 4660, 65535>>, <<65535, 255, 65280, 128>> }
Pix8  == { <<0, 255, 1, 255>>, <<128, 16, 254, 0>> }

\* Source buffer of n pixels alternating p0, p1; little-endian 16-bit samples
\* (bytesPerPx 6 or 8) or single bytes (bytesPerPx 3 or 4).
PixelBytes(px, bytesPerPx) ==
    IF bytesPerPx >= 6
    THEN [j \in 1..bytesPerPx |->
            IF j % 2 = 1 THEN px[(j + 1) \div 2] % 256 ELSE px[j \div 2] \div 256]
    ELSE [j \in 1..bytesPerPx |-> px[j]]
RECURSIVE FillPixels(_, _, _, _)
FillPixels(p0, p1, n, bytesPerPx) ==
    IF n = 0 THEN <<>>
    ELSE FillPixels(p0, p1, n - 1, bytesPerPx)
         \o PixelBytes(IF n % 2 = 1 THEN p0 ELSE p1, bytesPerPx)

\* 16-bit sample s (0-based) of a little-endian source buffer.
SampleLE(buf, s) == B(buf, 2 * s) + 256 * B(buf, 2 * s + 1)
\* 16-bit sample s (0-based) of a big-endian decoded buffer.
SampleBE(buf, s) == 256 * B(buf, 2 * s) + B(buf, 2 * s + 1)

CicpTags == { CicpNull, Cicp(9, 16), Cicp(1, 13) }

png_Init ==
    /\ \E w \in 1..MaxW, h \in 1..MaxH, bpp \in {3, 4, 6, 8}, cicp \in CicpTags :
        \E p0 \in (IF bpp >= 6 THEN Pix16 ELSE Pix8), p1 \in (IF bpp >= 6 THEN Pix16 ELSE Pix8) :
            png_in = [rawPixels |-> FillPixels(p0, p1, w * h, bpp), width |-> w,
                      height |-> h, bytesPerPx |-> bpp, cicp |-> cicp]
    /\ png_file = <<>>
    /\ png_out = <<>>
    /\ png_tag = CicpNull
    /\ png_dec = DecNull
    /\ png_pc = "start"

png_Idle ==
    /\ png_in = [rawPixels |-> <<>>, width |-> 0, height |-> 0, bytesPerPx |-> 0, cicp |-> CicpNull]
    /\ png_file = <<>>
    /\ png_out = <<>>
    /\ png_tag = CicpNull
    /\ png_dec = DecNull
    /\ png_pc = "idle"

BuildPNG16 ==
    /\ png_pc = "start"
    /\ png_file' = buildPNG16(png_in.rawPixels, png_in.width, png_in.height,
                              png_in.bytesPerPx, png_in.cicp)
    /\ png_pc' = "built"
    /\ UNCHANGED <<png_in, png_out, png_tag, png_dec>>

\* generateThumb re-tags a PNG whose cICP chunk was stripped.
ReinjectCICP ==
    /\ png_pc = "built"
    /\ \E cicp \in CicpTags \ {CicpNull} :
        /\ png_tag' = cicp
        /\ png_out' = reinjectCICP(png_file, cicp)
    /\ png_pc' = "reinjected"
    /\ UNCHANGED <<png_in, png_file, png_dec>>

DecodePixelBuffer ==
    /\ png_pc \in {"built", "reinjected"}
    /\ png_dec' = decodePixelBuffer(IF png_pc = "built" THEN png_file ELSE png_out)
    /\ png_pc' = "decoded"
    /\ UNCHANGED <<png_in, png_file, png_out, png_tag>>

\* C1: a 16-bit RGBA sample buffer encoded by buildPNG16 and decoded by
\* decodePixelBuffer comes back with the same width and height, 4 samples per
\* pixel and exactly the original 16-bit sample values in the original order.
C1_PngRoundTrip ==
    (png_pc = "decoded" /\ png_in.bytesPerPx = 8) =>
        /\ png_dec.kind = "ok"
        /\ png_dec.width = png_in.width
        /\ png_dec.height = png_in.height
        /\ png_dec.samplesPerPixel = 4
        /\ Len(png_dec.pixels) = Len(png_in.rawPixels)
        /\ \A s \in 0..(png_in.width * png_in.height * 4 - 1) :
              SampleBE(png_dec.pixels, s) = SampleLE(png_in.rawPixels, s)

\* A 2x2 RGBA image holding samples whose two bytes differ has been decoded.
C1_Witness ==
    /\ png_pc = "decoded"
    /\ png_in.bytesPerPx = 8
    /\ png_in.width = 2 /\ png_in.height = 2
    /\ png_dec.kind = "ok"
    /\ SampleLE(png_in.rawPixels, 2) = 4660
    /\ SampleBE(png_dec.pixels, 2) = 4660
    /\ SampleBE(png_dec.pixels, 4) = 65535

\* Structural validity of a PNG byte stream: signature, then chunks whose
\* length field fits the stream and whose CRC-32 covers type || data.
RECURSIVE ChunksConsistent(_, _)
ChunksConsistent(d, o) ==
    IF o = Len(d) THEN TRUE
    ELSE /\ o + 12 <= Len(d)
         /\ LET len == ReadU32BE(d, o)
            IN  /\ o + 12 + len <= Len(d)
                /\ Slice(d, o + 8 + len, o + 12 + len) =
                      Word32Bytes(crc32(Slice(d, o + 4, o + 8 + len), <<0, 0>>))
                /\ ChunksConsistent(d, o + 12 + len)
ValidPNG(d) == Slice(d, 0, 8) = PNG_SIG /\ ChunksConsistent(d, 8)
FirstChunkIsIHDR13(d) == ReadU32BE(d, 8) = 13 /\ Slice(d, 12, 16) = T_IHDR

\* C5: for a structurally valid PNG whose first chunk is a 13-byte IHDR,
\* reinjectCICP returns a stream whose new cICP chunk (primaries, transfer, 0, 1)
\* starts at offset 33 right after IHDR, keeps all original bytes in order, and
\* in which every chunk has a consistent length field and CRC-32.
C5_ReinjectPlacement ==
    (png_pc = "reinjected" /\ ValidPNG(png_file) /\ FirstChunkIsIHDR13(png_file)) =>
        /\ Len(png_out) = Len(png_file) + 16
        /\ Slice(png_out, 0, 33) = Slice(png_file, 0, 33)
        /\ ReadU32BE(png_out, 33) = 4
        /\ Slice(png_out, 37, 41) = T_cICP
        /\ Slice(png_out, 41, 45) = <<png_tag.primaries, png_tag.transfer, 0, 1>>
        /\ Slice(png_out, 49, Len(png_out)) = Slice(png_file, 33, Len(png_file))
        /\ ValidPNG(png_out)
        /\ FirstChunkIsIHDR13(png_out)

\* A valid PNG without cICP was re-tagged with BT.2020 / PQ.
C5_Witness ==
    /\ png_pc = "reinjected"
    /\ ValidPNG(png_file) /\ FirstChunkIsIHDR13(png_file)
    /\ ~png_in.cicp.present
    /\ png_tag = Cicp(9, 16)
    /\ Slice(png_out, 37, 45) = T_cICP \o <<9, 16, 0, 1>>
    /\ Slice(png_out, 53, 57) = T_IDAT

(***************************************************************************)
(* Colour math: fixed-point floats, matrices, PQ OETF                      *)
(*                                                                         *)
(* A linear-light channel value is an integer count of quarter units       *)
(* (LIN per 1.0); matrix coefficients are integers scaled by COEF, so a    *)
(* matrix product is an integer count of 1/FIX.  A PQ value is an integer  *)
(* count of 1/PQ_DEN, where PQ_DEN = lcm(65535, 4095): a 16-bit code c is  *)
(* 273*c and a 12-bit code c is 4369*c.  NaN is a value of its own that    *)
(* every arithmetic operator propagates and every comparison rejects.      *)
(***************************************************************************)
NaN == -2000000000
PosInf == 2000000001
NegInf == -2000000001
LIN == 4
COEF == 1000000
FIX == LIN * COEF
PQ_DEN == 17891055

\* Number.isFinite / isFinite on the values the palettes hold.
isFinite(x) == x # NaN /\ x # PosInf /\ x # NegInf

\* Math.max / Math.min: NaN if either argument is NaN.
MathMax(x, y) == IF x = NaN \/ y = NaN THEN NaN ELSE Max(x, y)
MathMin(x, y) == IF x = NaN \/ y = NaN THEN NaN ELSE Min(x, y)

\* x >= 0 as JS evaluates it (false for NaN).
Ge0(x) == x # NaN /\ x >= 0

\* One row of a 3x3 matrix-vector product.
Dot3(k1, k2, k3, r, g, b) ==
    IF r = NaN \/ g = NaN \/ b = NaN THEN NaN ELSE k1 * r + k2 * g + k3 * b

mat3(m, r, g, b) ==
    << Dot3(m[1], m[2], m[3], r, g, b),
       Dot3(m[4], m[5], m[6], r, g, b),
       Dot3(m[7], m[8], m[9], r, g, b) >>

M_709_TO_2020 ==
    << 627404, 329283,  43313,
        69097, 919540,  11362,
        16391,  88013, 895595 >>

M_709_TO_P3 ==
    << 822462, 177538,      0,
        33194, 966806,      0,
        17083,  72397, 910520 >>

M_709_TO_AP1 ==
    << 617029, 333868,  49104,
        69922, 917350,  12728,
        20550, 107552, 871898 >>

M_709_TO_AP0 ==
    << 433932, 376252, 189816,
        88618, 809275, 102106,
        17750, 109448, 872802 >>

\* Y = 0.212639 r + 0.715169 g + 0.072192 b
Luma(r, g, b) == Dot3(212639, 715169, 72192, r, g, b)

\* The worker's Y of a BT.2020 pixel: the luma row applied to
\* M_2020_TO_709 * (r, g, b), written as the single row (luma row) * M_2020_TO_709.
Luma2020(r, g, b) == Dot3(262700, 677998, 59301, r, g, b)

SKIV_MAX_PQ == 125 * FIX
FP16_MIN == FIX \div 2000

\* pqOetf_global at its positive arguments.  Math.pow with a fractional
\* exponent has no integer form, so the curve
\*     pow((c1 + c2*y^n) / (1 + c3*y^n), m),  y = v / 125
\* is tabulated: each row is <<v * FIX, round(pqOetf_global(v) * PQ_DEN)>>,
\* evaluated with the constants of the source.  An argument between two rows
\* takes the value of the row below it (the curve is increasing).
PQ_TABLE ==
 << <<1, 11566>>,
    <<62324, 2888892>>,
    <<286488, 4608550>>,
    <<319270, 4749995>>,
    <<352052, 4879744>>,
    <<687713, 5821828>>,
    <<704104, 5856612>>,
    <<1317132, 6820053>>,
    <<2006860, 7507141>>,
    <<2010120, 7509846>>,
    <<2435398, 7832627>>,
    <<2634264, 7966281>>,
    <<2711992, 8016031>>,
    <<2860676, 8107670>>,
    <<3401772, 8407937>>,
    <<3539966, 8477553>>,
    <<3678160, 8544707>>,
    <<3999996, 8692488>>,
    <<4000000, 8692490>>,
    <<5423984, 9236607>>,
    <<5508713, 9264604>>,
    <<5721352, 9333133>>,
    <<5999994, 9419408>>,
    <<6000000, 9419410>>,
    <<7287223, 9774648>>,
    <<7356320, 9792000>>,
    <<7999992, 9946624>>,
    <<8000000, 9946626>>,
    <<499999500, 17891053>>,
    <<500000000, 17891055>>,
    <<999999000, 19169574>>,
    <<1000000000, 19169576>> >>

PqCurve(y) ==
    LET row == CHOOSE k \in 1..Len(PQ_TABLE) :
                   /\ PQ_TABLE[k][1] <= y
                   /\ (k = Len(PQ_TABLE) \/ PQ_TABLE[k + 1][1] > y)
    IN  PQ_TABLE[row][2]

\* pqOetf_global(v): y = max(v, 0) / 125; 0 when y = 0; no upper clamp.
pqOetf_global(v) ==
    IF v = NaN THEN NaN
    ELSE LET y == Max(v, 0)
         IN  IF y = 0 THEN 0 ELSE PqCurve(y)

\* _SDR_Y_IN_PQ = pqOetf_global(1.5)
SDR_Y_IN_PQ == pqOetf_global((3 * FIX) \div 2)

\* Math.round(pq * 65535) and Math.round(pq * 4095), pq >= 0 or NaN.
Round16(pq) == IF pq = NaN THEN NaN ELSE (2 * pq + 273) \div 546
Round12(pq) == IF pq = NaN THEN NaN ELSE (2 * pq + 4369) \div 8738

\* `x & 0xff` and `(x >> 8) & 0xff`: ToInt32(NaN) is 0.
LoByte(x) == IF x = NaN THEN 0 ELSE x % 256
HiByte(x) == IF x = NaN THEN 0 ELSE (x \div 256) % 256

\* A store into a Uint16Array element: NaN becomes 0, the value wraps mod 2^16.
ToUint16(x) == IF x = NaN THEN 0 ELSE x % 65536

(***************************************************************************)
(* Tone-map peak estimator: PQ histogram and 99.94th percentile            *)
(*                                                                         *)
(* The same two loops stand in convertJxrToPNG, convertHdrExrToPNG,        *)
(* _floatsToAVIF and the worker's tonemapPQToSDR.  An image is a sequence  *)
(* of runs, each run a pixel value and the number of consecutive pixels    *)
(* that hold it; the histogram loop treats every pixel of a run alike.     *)
(***************************************************************************)
VARIABLES
    pk_variant,    \* which copy of the estimator runs
    pk_runs,       \* the image: <<[px |-> <<r,g,b>>, n |-> count], ...>>
    pk_i,          \* runs consumed by the histogram loop
    pk_freq,       \* pqLumaFreq / pqFreq, bins that were incremented
    pk_maxPQseen,  \* maxPQseen
    pk_maxYInPQ,   \* maxYInPQ, the peak handed to the tone-mapper
    pk_pc          \* "idle" | "hist" | "done"

pk_vars == <<pk_variant, pk_runs, pk_i, pk_freq, pk_maxPQseen, pk_maxYInPQ, pk_pc>>

\* Longest run sequence of an image.
MaxRuns == 2

PeakVariants == {"jxr", "hdrexr", "avif", "worker"}

\* Linear scRGB pixels: black, 1.0, 1.5, 2.0, 125 (PQ 1.0), 250, a colour
\* outside BT.709 with negative red, and a non-finite pixel.
PeakPalette ==
    { <<0, 0, 0>>, <<4, 4, 4>>, <<8, 8, 8>>, <<500, 500, 500>>,
      <<1000, 1000, 1000>>, <<-4, 4, 0>>, <<NaN, NaN, NaN>> }

\* The worker reads PQ-decoded BT.2020 samples: finite and non-negative.
WorkerPalette == { p \in PeakPalette : Ge0(p[1]) /\ Ge0(p[2]) /\ Ge0(p[3]) /\ p[1] <= 500 }

\* Run lengths: one pixel, and the two sizes around 1/0.0006 pixels.
RunCounts == {1, 1665, 1666}

\* width * height
NumPixels(runs) ==
    LET RECURSIVE total(_)
        total(k) == IF k = 0 THEN 0 ELSE runs[k].n + total(k - 1)
    IN  total(Len(runs))

\* pqLumaFreq[bin], 0 for a bin never incremented.
FreqAt(freq, bin) == IF bin \in DOMAIN freq THEN freq[bin] ELSE 0

\* pqLumaFreq[bin]++ done cnt times; an index that is not an integer in
\* 0..65535 (NaN) leaves a typed array unchanged.
FreqAdd(freq, bin, cnt) ==
    IF bin = NaN \/ bin < 0 \/ bin > 65535 THEN freq
    ELSE [b \in DOMAIN freq \cup {bin} |-> FreqAt(freq, b) + (IF b = bin THEN cnt ELSE 0)]

\* Y of one pixel as each copy computes it.
PeakLuma(variant, px) ==
    IF variant = "worker" THEN MathMax(0, Luma2020(px[1], px[2], px[3]))
    ELSE MathMax(Luma(px[1], px[2], px[3]), 0)

\* convertHdrExrToPNG skips a pixel with a non-finite channel.
PeakSkips(variant, px) ==
    variant = "hdrexr" /\ (~isFinite(px[1]) \/ ~isFinite(px[2]) \/ ~isFinite(px[3]))

PeakPq(variant, px) == pqOetf_global(MathMin(SKIV_MAX_PQ, PeakLuma(variant, px)))

PeakBin(variant, px) ==
    IF variant = "hdrexr"
    THEN MathMin(MathMax(Round16(PeakPq(variant, px)), 0), 65535)
    ELSE MathMin(Round16(PeakPq(variant, px)), 65535)

\* pct <= 99.94 after pct = 100 - 100*cum/numPixels, in exact arithmetic;
\* 0/0 is NaN and compares false.
PctReached(cum, numPixels) == numPixels > 0 /\ 10000 * cum >= 6 * numPixels

\* The highest incremented bin below i, or -1.
BinBelow(freq, i) ==
    LET lower == { b \in DOMAIN freq : b < i }
    IN  IF lower = {} THEN -1 ELSE CHOOSE b \in lower : \A o \in lower : o <= b

\* for (i = 65535; i >= 0; i--) { pct -= 100*freq[i]/numPixels;
\*                                if (pct <= 99.94) { ...; break; } }
\* Returns the bin of the break, or -1 when the loop runs out.  A bin that was
\* never incremented leaves pct as the bin above left it, so the scan steps
\* from one incremented bin to the next.
RECURSIVE PercentileScan(_, _, _, _)
PercentileScan(freq, numPixels, i, cum) ==
    IF i < 0 THEN -1
    ELSE LET acc == cum + FreqAt(freq, i)
         IN  IF PctReached(acc, numPixels) THEN i
             ELSE PercentileScan(freq, numPixels, BinBelow(freq, i), acc)

\* The loop breaking at the highest incremented bin, whatever share it holds.
PercentilePeak_anyShare(freq, numPixels, maxPQseen) ==
    LET i == BinBelow(freq, 65536)
    IN  IF i < 0 THEN maxPQseen ELSE 273 * i

\* maxYInPQ before the floor: i / 65535 at the break, else maxPQseen.
PercentilePeak(freq, numPixels, maxPQseen) ==
    LET i == PercentileScan(freq, numPixels, 65535, 0)
    IN  IF i < 0 THEN maxPQseen ELSE 273 * i

\* The estimate without the floor at SDR white.
FlooredPeak_noFloor(pct) == pct

\* Math.max(_SDR_Y_IN_PQ, maxYInPQ_pct)
FlooredPeak(pct) == Max(SDR_Y_IN_PQ, pct)

pk_Init ==
    /\ pk_variant \in PeakVariants
    /\ pk_runs \in SeqsOf([px : IF pk_variant = "worker" THEN WorkerPalette ELSE PeakPalette,
                           n : RunCounts], 0, MaxRuns)
    /\ pk_i = 0
    /\ pk_freq = [b \in {} |-> 0]
    /\ pk_maxPQseen = 0
    /\ pk_maxYInPQ = 0
    /\ pk_pc = "hist"

pk_Idle ==
    /\ pk_variant = "jxr"
    /\ pk_runs = <<>>
    /\ pk_i = 0
    /\ pk_freq = [b \in {} |-> 0]
    /\ pk_maxPQseen = 0
    /\ pk_maxYInPQ = 0
    /\ pk_pc = "idle"

\* The histogram loop over the pixels of the next run.
HistogramPass ==
    /\ pk_pc = "hist"
    /\ pk_i < Len(pk_runs)
    /\ LET run == pk_runs[pk_i + 1]
           pq  == PeakPq(pk_variant, run.px)
       IN  /\ pk_i' = pk_i + 1
           /\ IF PeakSkips(pk_variant, run.px)
              THEN UNCHANGED <<pk_freq, pk_maxPQseen>>
              ELSE /\ pk_freq' = FreqAdd(pk_freq, PeakBin(pk_variant, run.px), run.n)
                   /\ pk_maxPQseen' = IF pq # NaN /\ pq > pk_maxPQseen THEN pq ELSE pk_maxPQseen
    /\ UNCHANGED <<pk_variant, pk_runs, pk_maxYInPQ, pk_pc>>

\* The percentile loop and the floor.
EstimatePeak ==
    /\ pk_pc = "hist"
    /\ pk_i = Len(pk_runs)
    /\ pk_maxYInPQ' = FlooredPeak(PercentilePeak(pk_freq, NumPixels(pk_runs), pk_maxPQseen))
    /\ pk_pc' = "done"
    /\ UNCHANGED <<pk_variant, pk_runs, pk_i, pk_freq, pk_maxPQseen>>

\* Pixels of the image that hold exactly the pixel value p.
CountOf(p) ==
    LET RECURSIVE cnt(_)
        cnt(k) == IF k = 0 THEN 0
                  ELSE (IF pk_runs[k].px = p THEN pk_runs[k].n ELSE 0) + cnt(k - 1)
    IN  cnt(Len(pk_runs))

AllPixels(p) == pk_runs # <<>> /\ \A k \in 1..Len(pk_runs) : pk_runs[k].px = p

\* C9: for every image, the estimator's peak is at least the SDR-white PQ
\* value pqOetf(1.5); for an all-black image it is exactly that value.
C9_PeakFloor ==
    pk_pc = "done" =>
        /\ pk_maxYInPQ >= SDR_Y_IN_PQ
        /\ AllPixels(<<0, 0, 0>>) => pk_maxYInPQ = SDR_Y_IN_PQ

\* An all-black image, an empty image and an all-non-finite image went
\* through the estimator (one witness state for the all-black case).
C9_Witness ==
    /\ pk_pc = "done"
    /\ AllPixels(<<0, 0, 0>>)
    /\ NumPixels(pk_runs) = 1666
    /\ FreqAt(pk_freq, 0) = 1666
    /\ pk_maxYInPQ = SDR_Y_IN_PQ

\* Pixels at or above bin i.
TailCount(i) ==
    LET bins == { b \in DOMAIN pk_freq : b >= i }
        RECURSIVE sum(_)
        sum(S) == IF S = {} THEN 0
                  ELSE LET b == CHOOSE x \in S : TRUE IN pk_freq[b] + sum(S \ {b})
    IN  sum(bins)

HoldsShare(i) == 10000 * TailCount(i) >= 6 * NumPixels(pk_runs)

VARIABLES
    gm_variant,   \* which classifier runs
    gm_prim,      \* cicp_primaries of the PNG (analyzeGamutCoverage only)
    gm_px,        \* the pixels, linear scRGB triples
    gm_i,         \* pixels classified so far
    gm_g,         \* the counters g709, gP3, g2020, gAP1, gAP0, gTotal
    gm_report,    \* the coverage record returned, percentages in 1/10000 %
    gm_pc         \* "idle" | "loop" | "done"

gm_vars == <<gm_variant, gm_prim, gm_px, gm_i, gm_g, gm_report, gm_pc>>

\* Most pixels of a classified image.
MaxGamutPixels == 2

GamutVariants == {"jxr", "hdrexr", "stats12", "analyze"}

\* all channels >= 0
InGamut(v) == Ge0(v[1]) /\ Ge0(v[2]) /\ Ge0(v[3])

\* Y < FP16_MIN
NearBlack(r, g, b) == Luma(r, g, b) # NaN /\ Luma(r, g, b) < FP16_MIN

\* The three-tier cascade; "none" when no counter is incremented.
Classify3(r, g, b) ==
    IF InGamut(<<r, g, b>>) \/ NearBlack(r, g, b) THEN "rec709"
    ELSE IF InGamut(mat3(M_709_TO_P3, r, g, b)) THEN "p3"
    ELSE IF InGamut(mat3(M_709_TO_2020, r, g, b)) THEN "bt2020"
    ELSE "none"

\* The five-tier cascade of analyzeGamutCoverage.
Classify5(r, g, b) ==
    IF InGamut(<<r, g, b>>) \/ NearBlack(r, g, b) THEN "rec709"
    ELSE IF InGamut(mat3(M_709_TO_P3, r, g, b)) THEN "p3"
    ELSE IF InGamut(mat3(M_709_TO_2020, r, g, b)) THEN "bt2020"
    ELSE IF InGamut(mat3(M_709_TO_AP1, r, g, b)) THEN "ap1"
    ELSE IF InGamut(mat3(M_709_TO_AP0, r, g, b)) THEN "ap0"
    ELSE "none"

NoCounts == [rec709 |-> 0, p3 |-> 0, bt2020 |-> 0, ap1 |-> 0, ap0 |-> 0, total |-> 0]

\* gTotal++ and the counter of the bucket, if any.
Tally(g, bucket) ==
    IF bucket = "none" THEN [g EXCEPT !.total = @ + 1]
    ELSE [g EXCEPT !.total = @ + 1, ![bucket] = @ + 1]

\* Mutant: a non-finite channel becomes 0 but a negative one is kept.
ClampFinite_keepNegative(f) == IF isFinite(f) THEN f ELSE 0

\* Math.max(isFinite(f) ? f : 0, 0)
ClampFinite(f) == IF isFinite(f) THEN Max(f, 0) ELSE 0

\* The loop body's effect on the counters.
ClassifyPixel(variant, g, px) ==
    CASE variant = "jxr" -> Tally(g, Classify3(px[1], px[2], px[3]))
      [] variant = "hdrexr" ->
            IF ~isFinite(px[1]) \/ ~isFinite(px[2]) \/ ~isFinite(px[3]) THEN g
            ELSE Tally(g, Classify3(ClampFinite(px[1]), ClampFinite(px[2]), ClampFinite(px[3])))
      [] variant = "stats12" -> Tally(g, Classify3(px[1], px[2], px[3]))
      [] variant = "analyze" -> Tally(g, Classify5(px[1], px[2], px[3]))

\* (g / gTotal * 100).toFixed(4), as a count of 1/10000 %.
Percent(cnt, total) == (2 * 1000000 * cnt + total) \div (2 * total)

ReportNull == [present |-> FALSE, rec709 |-> 0, p3 |-> 0, bt2020 |-> 0, ap1 |-> 0, ap0 |-> 0]

\* The record built after the loop; none when gTotal = 0.
CoverageRecord(g) ==
    IF g.total = 0 THEN ReportNull
    ELSE [present |-> TRUE,
          rec709 |-> Percent(g.rec709, g.total), p3 |-> Percent(g.p3, g.total),
          bt2020 |-> Percent(g.bt2020, g.total),
          ap1 |-> Percent(g.ap1, g.total), ap0 |-> Percent(g.ap0, g.total)]

\* analyzeGamutCoverage on a PNG whose primaries are neither 9 nor 12.
NarrowRecord ==
    [present |-> TRUE, rec709 |-> 1000000, p3 |-> 0, bt2020 |-> 0, ap1 |-> 0, ap0 |-> 0]

\* scRGB pixels of a float source: inside BT.709, inside P3, inside BT.2020,
\* inside AP1, inside AP0, outside AP0, near-black with negative red, NaN.
ScRgbPalette ==
    { <<4, 4, 4>>, <<-1, 8, 0>>, <<-2, 4, 0>>, <<-8, 15, 0>>, <<-4, 6, 0>>,
      <<-4, 4, 0>>, <<-1, 0, 0>>, <<NaN, NaN, NaN>> }

\* _statsFromU12PQ and analyzeGamutCoverage decode non-negative BT.2020 (or
\* P3) samples and convert them to scRGB: the pixels lie inside BT.2020.
DecodedPalette == { p \in ScRgbPalette : InGamut(mat3(M_709_TO_2020, p[1], p[2], p[3])) }

gm_Init ==
    /\ gm_variant \in GamutVariants
    /\ gm_prim \in (IF gm_variant = "analyze" THEN {1, 9, 12} ELSE {9})
    /\ gm_px \in SeqsOf(IF gm_variant \in {"jxr", "hdrexr"} THEN ScRgbPalette ELSE DecodedPalette,
                        1, MaxGamutPixels)
    /\ gm_i = 0
    /\ gm_g = NoCounts
    /\ gm_report = ReportNull
    /\ gm_pc = "loop"

gm_Idle ==
    /\ gm_variant = "jxr"
    /\ gm_prim = 9
    /\ gm_px = <<>>
    /\ gm_i = 0
    /\ gm_g = NoCounts
    /\ gm_report = ReportNull
    /\ gm_pc = "idle"

\* analyzeGamutCoverage returns before the loop for a BT.709/sRGB PNG.
NarrowSource ==
    /\ gm_pc = "loop"
    /\ gm_variant = "analyze" /\ gm_prim # 9 /\ gm_prim # 12
    /\ gm_report' = NarrowRecord
    /\ gm_pc' = "done"
    /\ UNCHANGED <<gm_variant, gm_prim, gm_px, gm_i, gm_g>>

\* One iteration of the classification loop.
ClassifyNext ==
    /\ gm_pc = "loop"
    /\ ~(gm_variant = "analyze" /\ gm_prim # 9 /\ gm_prim # 12)
    /\ gm_i < Len(gm_px)
    /\ gm_g' = ClassifyPixel(gm_variant, gm_g, gm_px[gm_i + 1])
    /\ gm_i' = gm_i + 1
    /\ UNCHANGED <<gm_variant, gm_prim, gm_px, gm_report, gm_pc>>

\* The coverage record after the loop.
ReportCoverage ==
    /\ gm_pc = "loop"
    /\ ~(gm_variant = "analyze" /\ gm_prim # 9 /\ gm_prim # 12)
    /\ gm_i = Len(gm_px)
    /\ gm_report' = CoverageRecord(gm_g)
    /\ gm_pc' = "done"
    /\ UNCHANGED <<gm_variant, gm_prim, gm_px, gm_i, gm_g>>

BucketSum(g) == g.rec709 + g.p3 + g.bt2020 + g.ap1 + g.ap0
PercentSum(rep) == rep.rec709 + rep.p3 + rep.bt2020 + rep.ap1 + rep.ap0

\* C3: in every coverage record produced, each pixel counted in the total was
\* added to exactly one bucket: the buckets sum to the total, and the
\* percentages sum to 100% up to the rounding of each of the five figures.
C3_BucketsSumToTotal ==
    /\ BucketSum(gm_g) = gm_g.total
    /\ (gm_pc = "done" /\ gm_report.present) =>
           /\ PercentSum(gm_report) >= 1000000 - 5
           /\ PercentSum(gm_report) <= 1000000 + 5

\* A pixel the loop of convertHdrExrToPNG counts: all three channels finite.
FinitePixel(px) == isFinite(px[1]) /\ isFinite(px[2]) /\ isFinite(px[3])

\* C27: in convertHdrExrToPNG every finite pixel is counted as Rec.709,
\* whatever its colour: the counters never hold a pixel in another bucket,
\* and when at least one pixel is finite the record attached is rec709 = 100%,
\* p3 = 0%, bt2020 = 0%; when none is, no record is attached.
C27_HdrExrAlwaysRec709 ==
    gm_variant = "hdrexr" =>
        /\ gm_g.rec709 = gm_g.total /\ gm_g.p3 = 0 /\ gm_g.bt2020 = 0
        /\ gm_g.total = Cardinality({k \in 1..gm_i : FinitePixel(gm_px[k])})
        /\ gm_pc = "done" =>
              IF \E k \in 1..Len(gm_px) : FinitePixel(gm_px[k])
              THEN gm_report = [present |-> TRUE, rec709 |-> 1000000, p3 |-> 0,
                                bt2020 |-> 0, ap1 |-> 0, ap0 |-> 0]
              ELSE gm_report = ReportNull

\* A colour outside BT.2020 and a NaN pixel: the record says 100% Rec.709.
C27_Witness ==
    /\ gm_variant = "hdrexr"
    /\ gm_pc = "done"
    /\ gm_px = << <<-4, 4, 0>>, <<NaN, NaN, NaN>> >>
    /\ gm_g.total = 1
    /\ gm_report.present /\ gm_report.rec709 = 1000000

(***************************************************************************)
(* Converters: convertJxrToPNG, convertHdrExrToPNG, convertToPNG,          *)
(* _floatsToAVIF                                                           *)
(*                                                                         *)
(* The state holds the HDR side of a conversion: the peak estimate, the    *)
(* PQ-encoded HDR buffer, the gamut counters and the file returned.  The   *)
(* decoders in front (jpegxr, ImageMagick, _decodeRGBE, _decodeEXR) and    *)
(* the AV1 encoder behind hand over or take buffers; what they hand over   *)
(* is the input drawn here.                                                *)
(***************************************************************************)
VARIABLES
    cv_path,      \* "jxrFloat" | "jxr16" | "jxr8" | "hdrexr" | "magick" | "avif12"
    cv_src,       \* what the decoder handed over
    cv_i,         \* pixels done by the per-pixel loop
    cv_maxYInPQ,  \* maxYInPQ
    cv_hdrBuf,    \* hdrBuf (bytes) or u16pq (Uint16 elements)
    cv_g,         \* gamut counters
    cv_out,       \* the result: hdrFile, its _jxrGamut, whether sdrBlob and thumbBlob
                  \* are non-null and whether _avifStats is attached
    cv_pc         \* "idle" | "start" | "pixels" | "done" | "error"

cv_vars == <<cv_path, cv_src, cv_i, cv_maxYInPQ, cv_hdrBuf, cv_g, cv_out, cv_pc>>

\* Most pixels of a converted image (one row).
MaxPixels == 2

FloatPaths == {"jxrFloat", "hdrexr", "avif12"}
IntegerPaths == {"jxr16", "jxr8"}

\* Linear scRGB pixels of a float source: black, 1.0, 125, 250, a colour
\* outside BT.2020, NaN.
FloatPalette ==
    { <<0, 0, 0>>, <<4, 4, 4>>, <<500, 500, 500>>, <<1000, 1000, 1000>>,
      <<-4, 4, 0>>, <<NaN, NaN, NaN>> }

\* The estimator copy each float path runs.
EstimatorOf(path) ==
    CASE path = "jxrFloat" -> "jxr" [] path = "hdrexr" -> "hdrexr" [] path = "avif12" -> "avif"

\* <<pqFreq, maxPQseen>> after the histogram loop over the first k pixels.
RECURSIVE HistogramOf(_, _, _)
HistogramOf(variant, pixels, k) ==
    IF k = 0 THEN << [b \in {} |-> 0], 0 >>
    ELSE LET before == HistogramOf(variant, pixels, k - 1)
             pqv == PeakPq(variant, pixels[k])
         IN  IF PeakSkips(variant, pixels[k]) THEN before
             ELSE << FreqAdd(before[1], PeakBin(variant, pixels[k]), 1),
                     IF pqv # NaN /\ pqv > before[2] THEN pqv ELSE before[2] >>

ImagePeak(variant, pixels) ==
    LET hist == HistogramOf(variant, pixels, Len(pixels))
    IN  FlooredPeak(PercentilePeak(hist[1], Len(pixels), hist[2]))

\* The three arguments handed to pqOetf_global for one pixel.
OetfArgs(path, px) ==
    IF path = "jxrFloat" THEN mat3(M_709_TO_2020, px[1], px[2], px[3])
    ELSE LET v20 == mat3(M_709_TO_2020, ClampFinite(px[1]), ClampFinite(px[2]), ClampFinite(px[3]))
         IN  IF path = "avif12"
             THEN << MathMax(v20[1], 0), MathMax(v20[2], 0), MathMax(v20[3], 0) >>
             ELSE v20

\* hdrBuf[hi .. hi+7] of one pixel: three 16-bit codes, low byte first, alpha 0xffff.
HdrBytes(path, px) ==
    LET a == OetfArgs(path, px)
        pq0 == Round16(pqOetf_global(a[1]))
        pq1 == Round16(pqOetf_global(a[2]))
        pq2 == Round16(pqOetf_global(a[3]))
    IN  << LoByte(pq0), HiByte(pq0), LoByte(pq1), HiByte(pq1),
           LoByte(pq2), HiByte(pq2), 255, 255 >>

\* u16pq[i*4 .. i*4+3] of one pixel.
U12Codes(path, px) ==
    LET a == OetfArgs(path, px)
    IN  << ToUint16(Round12(pqOetf_global(a[1]))),
           ToUint16(Round12(pqOetf_global(a[2]))),
           ToUint16(Round12(pqOetf_global(a[3]))), 4095 >>

\* The cICP handed to buildPNG16 on the 16-bit-integer and 8-bit JXR paths.
PassThroughCicp == CicpNull

\* No tag on the float paths.
FloatPathCicp_none == CicpNull

\* cicp = { primaries: 9, transfer: 16 } on the float paths.
FloatPathCicp == Cicp(9, 16)

\* convertToPNG: cICP is read from the source only if it is an AVIF.
MagickCicp(src) == IF src.ext = "avif" THEN src.parsed ELSE CicpNull

\* A fallback that shifts every byte left by 8 bits (times 256).
Upscale8_shift(rawBytes) ==
    [j \in 1..(2 * Len(rawBytes)) |->
        IF j % 2 = 1 THEN 0 ELSE rawBytes[j \div 2]]

\* The 8-bit fallback: every byte times 257, low byte first.
Upscale8(rawBytes) ==
    [j \in 1..(2 * Len(rawBytes)) |->
        LET val16 == rawBytes[(j + 1) \div 2] * 257
        IN  IF j % 2 = 1 THEN val16 % 256 ELSE (val16 \div 256) % 256]

OutNone == [kind |-> "none", hdrFile |-> <<>>, gamut |-> ReportNull,
            sdrBlob |-> FALSE, thumbBlob |-> FALSE, avifStats |-> FALSE]

SrcOf(pixels, rawBytes, channels, n, ext, parsed) ==
    [px |-> pixels, raw |-> rawBytes, channels |-> channels, width |-> n, height |-> 1,
     ext |-> ext, parsed |-> parsed]

cv_Init ==
    /\ cv_path \in FloatPaths \cup IntegerPaths \cup {"magick"}
    /\ \E n \in 1..MaxPixels :
        \/ /\ cv_path \in FloatPaths
           /\ \E pixels \in [1..n -> FloatPalette] :
                cv_src = SrcOf(pixels, <<>>, 3, n, "", CicpNull)
        \/ /\ cv_path = "jxr16"
           /\ \E ch \in {3, 4}, p0 \in Pix16, p1 \in Pix16 :
                cv_src = SrcOf(<<>>, FillPixels(p0, p1, n, 2 * ch), ch, n, "", CicpNull)
        \/ /\ cv_path = "jxr8"
           /\ \E ch \in {3, 4}, p0 \in Pix8, p1 \in Pix8 :
                cv_src = SrcOf(<<>>, FillPixels(p0, p1, n, ch), ch, n, "", CicpNull)
        \/ /\ cv_path = "magick"
           /\ \E p0 \in Pix16, p1 \in Pix16, ext \in {"avif", "other"} :
                \E parsed \in (IF ext = "avif" THEN CicpTags ELSE {CicpNull}) :
                    cv_src = SrcOf(<<>>, FillPixels(p0, p1, n, 8), 4, n, ext, parsed)
    /\ cv_i = 0
    /\ cv_maxYInPQ = 0
    /\ cv_hdrBuf = <<>>
    /\ cv_g = NoCounts
    /\ cv_out = OutNone
    /\ cv_pc = "start"

cv_Idle ==
    /\ cv_path = "jxrFloat"
    /\ cv_src = SrcOf(<<>>, <<>>, 0, 0, "", CicpNull)
    /\ cv_i = 0
    /\ cv_maxYInPQ = 0
    /\ cv_hdrBuf = <<>>
    /\ cv_g = NoCounts
    /\ cv_out = OutNone
    /\ cv_pc = "idle"

\* codec.decode throws ('jpegxr decode failed: ...') or ImageMagick.read throws.
DecodeFails ==
    /\ cv_pc = "start"
    /\ cv_path \in {"jxrFloat", "jxr16", "jxr8", "magick"}
    /\ cv_out' = [OutNone EXCEPT !.kind = "error"]
    /\ cv_pc' = "error"
    /\ UNCHANGED <<cv_path, cv_src, cv_i, cv_maxYInPQ, cv_hdrBuf, cv_g>>

\* Histogram and percentile loops of a float path.
EstimateImagePeak ==
    /\ cv_pc = "start"
    /\ cv_path \in FloatPaths
    /\ cv_maxYInPQ' = ImagePeak(EstimatorOf(cv_path), cv_src.px)
    /\ cv_pc' = "pixels"
    /\ UNCHANGED <<cv_path, cv_src, cv_i, cv_hdrBuf, cv_g, cv_out>>

\* One iteration of the combined encode + classification loop.
EncodePixel ==
    /\ cv_pc = "pixels"
    /\ cv_i < Len(cv_src.px)
    /\ LET px == cv_src.px[cv_i + 1]
       IN  /\ cv_hdrBuf' = cv_hdrBuf \o (IF cv_path = "avif12" THEN U12Codes(cv_path, px)
                                         ELSE HdrBytes(cv_path, px))
           /\ cv_g' = IF cv_path = "avif12" THEN cv_g
                      ELSE ClassifyPixel(EstimatorOf(cv_path), cv_g, px)
    /\ cv_i' = cv_i + 1
    /\ UNCHANGED <<cv_path, cv_src, cv_maxYInPQ, cv_out, cv_pc>>

\* The HDR file of a float path: buildPNG16 with the BT.2020/PQ tag and the
\* gamut record, or the 12-bit buffer handed to the AV1 encoder.
FinishFloat ==
    /\ cv_pc = "pixels"
    /\ cv_i = Len(cv_src.px)
    /\ cv_out' = IF cv_path = "avif12"
                 THEN [kind |-> "avif", hdrFile |-> cv_hdrBuf, gamut |-> ReportNull,
                       sdrBlob |-> TRUE, thumbBlob |-> TRUE, avifStats |-> TRUE]
                 ELSE [kind |-> "png",
                       hdrFile |-> buildPNG16(cv_hdrBuf, cv_src.width, cv_src.height, 8, FloatPathCicp),
                       gamut |-> CoverageRecord(cv_g),
                       sdrBlob |-> TRUE, thumbBlob |-> TRUE, avifStats |-> FALSE]
    /\ cv_pc' = "done"
    /\ UNCHANGED <<cv_path, cv_src, cv_i, cv_maxYInPQ, cv_hdrBuf, cv_g>>

\* The 16-bit-integer JXR path and the 8-bit fallback.
PassThroughInteger ==
    /\ cv_pc = "start"
    /\ cv_path \in IntegerPaths
    /\ cv_hdrBuf' = IF cv_path = "jxr16" THEN cv_src.raw ELSE Upscale8(cv_src.raw)
    /\ cv_out' = [kind |-> "png",
                  hdrFile |-> buildPNG16(cv_hdrBuf', cv_src.width, cv_src.height,
                                         cv_src.channels * 2, PassThroughCicp),
                  gamut |-> ReportNull,
                  sdrBlob |-> FALSE, thumbBlob |-> FALSE, avifStats |-> FALSE]
    /\ cv_pc' = "done"
    /\ UNCHANGED <<cv_path, cv_src, cv_i, cv_maxYInPQ, cv_g>>

\* convertToPNG on any source ImageMagick reads.
ConvertMagick ==
    /\ cv_pc = "start"
    /\ cv_path = "magick"
    /\ cv_out' = [kind |-> "png",
                  hdrFile |-> buildPNG16(cv_src.raw, cv_src.width, cv_src.height,
                                         Len(cv_src.raw) \div (cv_src.width * cv_src.height),
                                         MagickCicp(cv_src)),
                  gamut |-> ReportNull,
                  sdrBlob |-> (MagickCicp(cv_src).present /\ MagickCicp(cv_src).transfer = 16),
                  thumbBlob |-> FALSE, avifStats |-> FALSE]
    /\ cv_pc' = "done"
    /\ UNCHANGED <<cv_path, cv_src, cv_i, cv_maxYInPQ, cv_hdrBuf, cv_g>>

\* The cICP chunk of a PNG, looked for between IHDR and the first IDAT.
RECURSIVE PngCicp(_, _)
PngCicp(png, off) ==
    IF off + 12 > Len(png) THEN CicpNull
    ELSE LET ctype == Slice(png, off + 4, off + 8)
         IN  IF ctype = T_cICP THEN Cicp(At(png, off + 8), At(png, off + 9))
             ELSE IF ctype = T_IDAT \/ ctype = T_IEND THEN CicpNull
             ELSE PngCicp(png, off + 12 + ReadU32BE(png, off))

\* IHDR bit depth
PngBitDepth(png) == At(png, 24)

StoredCode(k, c) ==
    IF cv_path = "avif12" THEN cv_hdrBuf[4 * (k - 1) + c]
    ELSE SampleLE(cv_hdrBuf, 4 * (k - 1) + (c - 1))

\* C8: pqOetf of every finite input lies in [0,1], and the code written to
\* the HDR buffer is round(pqOetf(x)*65535) in 0..65535 (round(pqOetf(x)*4095)
\* in 0..4095 for the 12-bit buffer), unwrapped, also for inputs above 125.
C8_PqCodesInRange ==
    cv_path \in FloatPaths =>
        \A k \in 1..cv_i : \A c \in 1..3 :
            LET arg == OetfArgs(cv_path, cv_src.px[k])[c]
                pqv == pqOetf_global(arg)
                top == IF cv_path = "avif12" THEN 4095 ELSE 65535
                code == IF cv_path = "avif12" THEN Round12(pqv) ELSE Round16(pqv)
            IN  isFinite(arg) =>
                    /\ pqv >= 0 /\ pqv <= PQ_DEN
                    /\ code \in 0..top
                    /\ StoredCode(k, c) = code

\* C19: on the 8-bit JXR fallback and in the 8-bit branch of buildPNG16 every
\* 8-bit sample v reaches the PNG as the 16-bit value v*257 (0 as 0, 255 as
\* 65535), channel for channel, and the result of an integer JXR path has no
\* SDR image, no thumbnail and no gamut or luminance statistics.
C19_EightBitTimes257 ==
    /\ (cv_pc = "done" /\ cv_path = "jxr8") =>
          LET jxrDec == decodePixelBuffer(cv_out.hdrFile)
          IN  /\ jxrDec.kind = "ok"
              /\ jxrDec.samplesPerPixel = cv_src.channels
              /\ \A s \in 0..(Len(cv_src.raw) - 1) :
                    SampleBE(jxrDec.pixels, s) = 257 * B(cv_src.raw, s)
    /\ (cv_pc = "done" /\ cv_path \in IntegerPaths) =>
          /\ ~cv_out.sdrBlob
          /\ ~cv_out.thumbBlob
          /\ cv_out.gamut = ReportNull
          /\ ~cv_out.avifStats
    /\ (png_pc = "decoded" /\ png_in.bytesPerPx < 6) =>
          /\ png_dec.kind = "ok"
          /\ png_dec.samplesPerPixel = png_in.bytesPerPx
          /\ \A t \in 0..(Len(png_in.rawPixels) - 1) :
                SampleBE(png_dec.pixels, t) = 257 * B(png_in.rawPixels, t)

\* An 8-bit RGBA JXR holding the bytes 0, 255 and 1 was converted: they are in
\* the PNG as 0, 65535 and 257, and the result has neither SDR image nor
\* thumbnail.
C19_Witness ==
    /\ cv_pc = "done" /\ cv_path = "jxr8"
    /\ cv_src.channels = 4
    /\ B(cv_src.raw, 0) = 0 /\ B(cv_src.raw, 1) = 255 /\ B(cv_src.raw, 2) = 1
    /\ SampleBE(decodePixelBuffer(cv_out.hdrFile).pixels, 0) = 0
    /\ SampleBE(decodePixelBuffer(cv_out.hdrFile).pixels, 1) = 65535
    /\ SampleBE(decodePixelBuffer(cv_out.hdrFile).pixels, 2) = 257
    /\ ~cv_out.sdrBlob /\ ~cv_out.thumbBlob


(***************************************************************************)
(* Radiance RGBE and OpenEXR decoders                                      *)
(*                                                                         *)
(* Files are byte sequences.  A decoded float is a count of quarter units  *)
(* (LIN per 1.0), truncated toward zero when the float is finer than that. *)
(***************************************************************************)
\* 2^n for n >= 0.
\* _f16ToF32(h): IEEE 754 binary16 to float.
f16ToF32(h) ==
    LET sgn == IF h \div 32768 = 1 THEN -1 ELSE 1
        ex == (h \div 1024) % 32
        mant == h % 1024
    IN  IF ex = 0 THEN 0
        ELSE IF ex = 31 THEN (IF mant # 0 THEN NaN ELSE IF sgn = 1 THEN PosInf ELSE NegInf)
        ELSE IF ex >= 23 THEN sgn * (1024 + mant) * 2 ^ (ex - 23)
        ELSE sgn * ((1024 + mant) \div 2 ^ (23 - ex))

\* DataView.getFloat32(0, true) of four bytes, b0 lowest.  Floats of 2^8 and
\* above are outside the sample values of the model and read as PosInf/NegInf.
f32FromBytes(b0, b1, b2, b3) ==
    LET sgn == IF b3 >= 128 THEN -1 ELSE 1
        ex == 2 * (b3 % 128) + (b2 \div 128)
        mant == b0 + 256 * b1 + 65536 * (b2 % 128)
    IN  IF ex = 0 THEN 0
        ELSE IF ex = 255 THEN (IF mant # 0 THEN NaN ELSE IF sgn = 1 THEN PosInf ELSE NegInf)
        ELSE IF ex > 134 THEN (IF sgn = 1 THEN PosInf ELSE NegInf)
        ELSE IF ex >= 125 THEN sgn * ((8388608 + mant) \div 2 ^ (148 - ex))
        ELSE 0

\* data.indexOf(byte, from): 0-based index, -1 when absent.
IndexOf(d, byte, from) ==
    LET hits == { k \in from..(Len(d) - 1) : d[k + 1] = byte }
    IN  IF hits = {} THEN -1 ELSE CHOOSE k \in hits : \A o \in hits : k <= o

\* First 1-based index >= k whose character is not in S (Len + 1 at the end).
RECURSIVE RunEnd(_, _, _)
RunEnd(line, k, S) ==
    IF k > Len(line) \/ line[k] \notin S THEN k ELSE RunEnd(line, k + 1, S)

\* parseInt(digits, 10)
RECURSIVE ParseInt(_, _)
ParseInt(digits, n) ==
    IF n = 0 THEN 0 ELSE 10 * ParseInt(digits, n - 1) + (digits[n] - 48)

\* sizeLine.match(/[-+]Y\s+(\d+)\s+[-+]X\s+(\d+)/) starting at 1-based k:
\* <<height, width>>, or <<>> when the pattern does not match there.
SizeMatchAt(line, k) ==
    LET WsChars == {9, 10, 11, 12, 13, 32}
        DigitChars == 48..57
        SignChars == {43, 45}
        ws1 == RunEnd(line, k + 2, WsChars)
        dg1 == RunEnd(line, ws1, DigitChars)
        ws2 == RunEnd(line, dg1, WsChars)
        ws3 == RunEnd(line, ws2 + 2, WsChars)
        dg2 == RunEnd(line, ws3, DigitChars)
    IN  IF /\ k + 1 <= Len(line) /\ line[k] \in SignChars /\ line[k + 1] = 89
           /\ ws1 > k + 2 /\ dg1 > ws1 /\ ws2 > dg1
           /\ ws2 + 1 <= Len(line) /\ line[ws2] \in SignChars /\ line[ws2 + 1] = 88
           /\ ws3 > ws2 + 2 /\ dg2 > ws3
        THEN << ParseInt(SubSeq(line, ws1, dg1 - 1), dg1 - ws1),
                ParseInt(SubSeq(line, ws3, dg2 - 1), dg2 - ws3) >>
        ELSE <<>>

SizeMatch(line) ==
    LET starts == { k \in 1..Len(line) : SizeMatchAt(line, k) # <<>> }
    IN  IF starts = {} THEN <<>>
        ELSE SizeMatchAt(line, CHOOSE k \in starts : \A o \in starts : k <= o)

\* The header loop: position after the blank line, the position where the
\* data ran out, or -1 when 'HDR: unterminated header' is thrown.
RECURSIVE RgbeHeaderEnd(_, _)
RgbeHeaderEnd(d, hpos) ==
    IF ~(hpos < Len(d)) THEN hpos
    ELSE LET eol == IndexOf(d, 10, hpos)
         IN  IF eol = -1 THEN -1
             ELSE IF eol = hpos THEN eol + 1
             ELSE RgbeHeaderEnd(d, eol + 1)

\* rgbeToFloat(r, g, b, e) with scale = 2^(e - 136); an undefined byte gives NaN.
RgbeChannel(v, e) ==
    IF v = Undef THEN NaN
    ELSE IF e >= 134 THEN v * 2 ^ (Min(e - 134, 20))
    ELSE IF e >= 104 THEN v \div 2 ^ (134 - e)
    ELSE 0
\* Mutant: the exponent bias without the 8 mantissa bits (scale = 2^(e - 128)).
rgbeToFloat_bias128(r, g, b, e) ==
    IF e = 0 THEN <<0, 0, 0>>
    ELSE IF e = Undef THEN <<NaN, NaN, NaN>>
    ELSE << RgbeChannel(r, e + 8), RgbeChannel(g, e + 8), RgbeChannel(b, e + 8) >>

rgbeToFloat(r, g, b, e) ==
    IF e = 0 THEN <<0, 0, 0>>
    ELSE IF e = Undef THEN <<NaN, NaN, NaN>>
    ELSE << RgbeChannel(r, e), RgbeChannel(g, e), RgbeChannel(b, e) >>

\* scanline[base + k] = vals[k + 1] for every index inside the scanline
\* (a store past the end of a Uint8Array is dropped, undefined stores 0).
StoreRun(scan, base, vals) ==
    [j \in 1..Len(scan) |->
        IF j - 1 >= base /\ j - 1 < base + Len(vals)
        THEN (IF vals[j - base] = Undef THEN 0 ELSE vals[j - base])
        ELSE scan[j]]

\* Mutant: the code byte 128 taken for a run (code >= 128) instead of a literal.
RECURSIVE RleChannel_run128(_, _, _, _, _, _)
RleChannel_run128(d, rpos, scan, ch, x, width) ==
    IF ~(x < width) THEN [spin |-> FALSE, pos |-> rpos, scan |-> scan]
    ELSE LET code128 == At(d, rpos)
         IN  IF code128 = Undef THEN [spin |-> TRUE, pos |-> rpos, scan |-> scan]
             ELSE IF code128 >= 128
             THEN RleChannel_run128(d, rpos + 2,
                             StoreRun(scan, ch * width + x,
                                      [j \in 1..(code128 - 128) |-> At(d, rpos + 1)]),
                             ch, x + (code128 - 128), width)
             ELSE RleChannel_run128(d, rpos + 1 + code128,
                             StoreRun(scan, ch * width + x,
                                      [j \in 1..code128 |-> At(d, rpos + j)]),
                             ch, x + code128, width)

\* while (x < width) { code = data[pos++]; ... } for one channel.
\* spin: the loop can no longer advance x (code is undefined for ever).
RECURSIVE RleChannel(_, _, _, _, _, _)
RleChannel(d, rpos, scan, ch, x, width) ==
    IF ~(x < width) THEN [spin |-> FALSE, pos |-> rpos, scan |-> scan]
    ELSE LET code == At(d, rpos)
         IN  IF code = Undef THEN [spin |-> TRUE, pos |-> rpos, scan |-> scan]
             ELSE IF code > 128
             THEN RleChannel(d, rpos + 2,
                             StoreRun(scan, ch * width + x,
                                      [j \in 1..(code - 128) |-> At(d, rpos + 1)]),
                             ch, x + (code - 128), width)
             ELSE RleChannel(d, rpos + 1 + code,
                             StoreRun(scan, ch * width + x,
                                      [j \in 1..code |-> At(d, rpos + j)]),
                             ch, x + code, width)

RECURSIVE RleScanline(_, _, _, _, _)
RleScanline(d, rpos, scan, ch, width) ==
    IF ch = 4 THEN [spin |-> FALSE, pos |-> rpos, scan |-> scan]
    ELSE LET one == RleChannel(d, rpos, scan, ch, 0, width)
         IN  IF one.spin THEN one
             ELSE RleScanline(d, one.pos, one.scan, ch + 1, width)

\* The floats of one decoded scanline.
RECURSIVE ScanFloats(_, _, _)
ScanFloats(scan, width, x) ==
    IF x = 0 THEN <<>>
    ELSE ScanFloats(scan, width, x - 1)
         \o rgbeToFloat(scan[x], scan[width + x], scan[2 * width + x], scan[3 * width + x])

RECURSIVE FlatFloats(_, _, _)
FlatFloats(d, fpos, x) ==
    IF x = 0 THEN <<>>
    ELSE FlatFloats(d, fpos, x - 1)
         \o rgbeToFloat(At(d, fpos + 4 * (x - 1)), At(d, fpos + 4 * (x - 1) + 1),
                        At(d, fpos + 4 * (x - 1) + 2), At(d, fpos + 4 * (x - 1) + 3))

DecodeError(msg) ==
    [kind |-> "error", msg |-> msg, width |-> 0, height |-> 0, floats |-> <<>>]
DecodeSpin == [kind |-> "spin", msg |-> "", width |-> 0, height |-> 0, floats |-> <<>>]
DecodeOk(width, height, floats) ==
    [kind |-> "ok", msg |-> "", width |-> width, height |-> height, floats |-> floats]

\* for (y = 0; y < height; y++) { RLE scanline or flat scanline }
RECURSIVE RgbeRows(_, _, _, _, _, _)
RgbeRows(d, ypos, y, width, height, floats) ==
    IF ~(y < height) THEN DecodeOk(width, height, floats)
    ELSE IF /\ ypos + 4 <= Len(d)
            /\ At(d, ypos) = 2 /\ At(d, ypos + 1) = 2
            /\ 256 * At(d, ypos + 2) + At(d, ypos + 3) = width
         THEN LET line == RleScanline(d, ypos + 4, [j \in 1..(4 * width) |-> 0], 0, width)
              IN  IF line.spin THEN DecodeSpin
                  ELSE RgbeRows(d, line.pos, y + 1, width, height,
                                floats \o ScanFloats(line.scan, width, width))
         ELSE RgbeRows(d, ypos + 4 * width, y + 1, width, height,
                       floats \o FlatFloats(d, ypos, width))

\* _decodeRGBE(data)
decodeRGBE(d) ==
    LET hdrEnd == RgbeHeaderEnd(d, 0)
        sizeEol == IndexOf(d, 10, Max(hdrEnd, 0))
        sizeLine == Slice(d, hdrEnd, IF sizeEol = -1 THEN Len(d) - 1 ELSE sizeEol)
        dims == SizeMatch(sizeLine)
    IN  IF hdrEnd = -1 THEN DecodeError("HDR: unterminated header")
        ELSE IF dims = <<>> THEN DecodeError("HDR: unrecognised size line")
        ELSE RgbeRows(d, sizeEol + 1, 0, dims[2], dims[1], <<>>)

\* ---- OpenEXR ----

\* DataView reads throw a RangeError unless pos .. pos+n-1 lies inside the buffer.
InView(d, vpos, n) == vpos >= 0 /\ vpos + n <= Len(d)
\* dv.getUint32(pos, true) as <<high 16 bits, low 16 bits>>.
getUint32(d, vpos) ==
    << d[vpos + 3] + 256 * d[vpos + 4], d[vpos + 1] + 256 * d[vpos + 2] >>
\* dv.getInt32(pos, true)
getInt32(d, vpos) ==
    LET word == getUint32(d, vpos)
    IN  IF word[1] >= 32768 THEN (word[1] - 65536) * 65536 + word[2]
        ELSE word[1] * 65536 + word[2]
\* readU64(): lo + hi * 2^32.  An offset of 2^31 or more lies past every
\* buffer; it is kept as the buffer length, where the next read throws too.
readU64(d, vpos) ==
    LET lo32 == getUint32(d, vpos)
        hi32 == getUint32(d, vpos + 4)
    IN  IF hi32 = <<0, 0>> /\ lo32[1] < 32768 THEN lo32[1] * 65536 + lo32[2] ELSE Len(d)

EXR_MAGIC == <<305, 12150>>
S_channels == <<99, 104, 97, 110, 110, 101, 108, 115>>
S_compression == <<99, 111, 109, 112, 114, 101, 115, 115, 105, 111, 110>>
S_dataWindow == <<100, 97, 116, 97, 87, 105, 110, 100, 111, 119>>

\* Error messages are kept up to their variable part; a RangeError is what
\* DataView throws, a TypeError what the decompression stream rejects with.

\* The channel list of the 'channels' attribute:
\* while (data[pos] !== 0) { name = readStr(); type = readI32(); pos += 4; readI32(); readI32(); }
\* readStr() never returns when no zero byte follows ("spin").
RECURSIVE ExrChlist(_, _, _)
ExrChlist(d, cpos, chans) ==
    IF At(d, cpos) = 0 THEN [status |-> "ok", pos |-> cpos + 1, channels |-> chans]
    ELSE LET nameEnd == IndexOf(d, 0, Max(cpos, 0))
         IN  IF nameEnd = -1 THEN [status |-> "spin", pos |-> cpos, channels |-> chans]
             ELSE IF ~InView(d, nameEnd + 1, 4) \/ ~InView(d, nameEnd + 9, 8)
             THEN [status |-> "range", pos |-> cpos, channels |-> chans]
             ELSE ExrChlist(d, nameEnd + 17,
                            Append(chans, [name |-> Slice(d, cpos, nameEnd),
                                           type |-> getInt32(d, nameEnd + 1)]))

\* The attribute loop: while (true) { attrName = readStr(); if (attrName === '') break; ... }
RECURSIVE ExrAttrs(_, _)
ExrAttrs(d, hp) ==
    LET attrEnd == IndexOf(d, 0, Max(hp.pos, 0))
        attrName == Slice(d, hp.pos, attrEnd)
        typeEnd == IndexOf(d, 0, attrEnd + 1)
        attrSize == getInt32(d, typeEnd + 1)
        attrStart == typeEnd + 5
    IN  IF attrEnd = -1 THEN [hp EXCEPT !.status = "spin"]
        ELSE IF attrName = <<>> THEN [hp EXCEPT !.pos = attrEnd + 1]
        ELSE IF typeEnd = -1 THEN [hp EXCEPT !.status = "spin"]
        ELSE IF ~InView(d, typeEnd + 1, 4) THEN [hp EXCEPT !.status = "range"]
        ELSE IF attrName = S_compression
        THEN ExrAttrs(d, [hp EXCEPT !.compression = At(d, attrStart), !.pos = attrStart + 1])
        ELSE IF attrName = S_dataWindow
        THEN IF ~InView(d, attrStart, 16) THEN [hp EXCEPT !.status = "range"]
             ELSE ExrAttrs(d, [hp EXCEPT
                    !.dataWinMinX = getInt32(d, attrStart),
                    !.dataWinMinY = getInt32(d, attrStart + 4),
                    !.width = getInt32(d, attrStart + 8) - getInt32(d, attrStart) + 1,
                    !.height = getInt32(d, attrStart + 12) - getInt32(d, attrStart + 4) + 1,
                    !.pos = attrStart + 16])
        ELSE IF attrName = S_channels
        THEN LET cl == ExrChlist(d, attrStart, hp.channels)
             IN  IF cl.status # "ok" THEN [hp EXCEPT !.status = cl.status]
                 ELSE ExrAttrs(d, [hp EXCEPT !.channels = cl.channels, !.pos = cl.pos])
        ELSE ExrAttrs(d, [hp EXCEPT !.pos = attrStart + attrSize])

\* Mutant: every compression type is accepted.
ExrCompressionSupported_any(compression) == TRUE

\* !(compression !== 0 && compression !== 2 && compression !== 3)
ExrCompressionSupported(compression) == compression \in {0, 2, 3}

\* a.name < b.name on strings (UTF-16 code unit order).
RECURSIVE StrLess(_, _)
StrLess(a, b) ==
    IF b = <<>> THEN FALSE
    ELSE IF a = <<>> THEN TRUE
    ELSE IF a[1] # b[1] THEN a[1] < b[1]
    ELSE StrLess(Tail(a), Tail(b))

\* channels.sort(by name): a stable sort.
RECURSIVE SortChannels(_, _)
SortChannels(chans, n) ==
    IF n = 0 THEN <<>>
    ELSE LET before == SortChannels(chans, n - 1)
             keep == Cardinality({ j \in 1..Len(before) : ~StrLess(chans[n].name, before[j].name) })
         IN  SubSeq(before, 1, keep) \o << chans[n] >> \o SubSeq(before, keep + 1, Len(before))

toLowerCase(s) == [j \in 1..Len(s) |-> IF s[j] \in 65..90 THEN s[j] + 32 ELSE s[j]]

\* findCh(names): index of the first channel matching the first name that matches, else -1.
RECURSIVE findCh(_, _, _)
findCh(chans, names, k) ==
    IF k > Len(names) THEN -1
    ELSE LET hits == { j \in 1..Len(chans) :
                         \/ chans[j].name = names[k]
                         \/ toLowerCase(chans[j].name) = toLowerCase(names[k]) }
         IN  IF hits # {} THEN (CHOOSE j \in hits : \A o \in hits : j <= o) - 1
             ELSE findCh(chans, names, k + 1)

bps(t) == IF t = 2 THEN 4 ELSE 2
linesPerChunk(compression) == IF compression = 3 THEN 16 ELSE 1
numChunks(height, compression) ==
    (height + linesPerChunk(compression) - 1) \div linesPerChunk(compression)

RECURSIVE ReadOffsets(_, _, _)
ReadOffsets(d, opos, n) ==
    IF n = 0 THEN <<>> ELSE ReadOffsets(d, opos, n - 1) \o << readU64(d, opos + 8 * (n - 1)) >>

ExrNoState ==
    [compression |-> 0, width |-> 0, height |-> 0, dataWinMinY |-> 0, channels |-> <<>>,
     rIdx |-> -1, gIdx |-> -1, bIdx |-> -1, offsets |-> <<>>, chunk |-> 0, floats |-> <<>>]

\* _decodeEXR up to the chunk loop: the three checks, the header, the channel
\* lookup and the offset table.  res is the thrown error (or the hang), st the
\* decoder's locals when the chunk loop is entered.
ExrOpen(d) ==
    LET hp == ExrAttrs(d, [status |-> "ok", pos |-> 8, compression |-> 0,
                           width |-> 0, height |-> 0,
                           dataWinMinX |-> 0, dataWinMinY |-> 0, channels |-> <<>>])
        sorted == SortChannels(hp.channels, Len(hp.channels))
        count == numChunks(hp.height, hp.compression)
        \* ['R', 'r', 'Red', 'red'], ['G', 'g', 'Green', 'green', 'Y'], ['B', 'b', 'Blue', 'blue']
        NamesR == << <<82>>, <<114>>, <<82, 101, 100>>, <<114, 101, 100>> >>
        NamesG == << <<71>>, <<103>>, <<71, 114, 101, 101, 110>>,
                     <<103, 114, 101, 101, 110>>, <<89>> >>
        NamesB == << <<66>>, <<98>>, <<66, 108, 117, 101>>, <<98, 108, 117, 101>> >>
        Thrown(msg) == [res |-> DecodeError(msg), st |-> ExrNoState]
    IN  IF ~InView(d, 0, 4) THEN Thrown("RangeError")
        ELSE IF getUint32(d, 0) # EXR_MAGIC THEN Thrown("Not an OpenEXR file")
        ELSE IF ~InView(d, 4, 4) THEN Thrown("RangeError")
        ELSE IF (getUint32(d, 4)[2] \div 512) % 2 = 1
        THEN Thrown("Tiled EXR not supported - only scan-line EXR")
        ELSE IF hp.status = "spin" THEN [res |-> DecodeSpin, st |-> ExrNoState]
        ELSE IF hp.status = "range" THEN Thrown("RangeError")
        ELSE IF hp.width = 0 \/ hp.height = 0
        THEN Thrown("EXR: missing dataWindow attribute")
        ELSE IF ~ExrCompressionSupported(hp.compression)
        THEN Thrown("EXR: unsupported compression type")
        ELSE IF ~InView(d, hp.pos, 8 * count)
        THEN Thrown("RangeError")
        ELSE [res |-> DecodeOk(hp.width, hp.height, <<>>),
              st |-> [compression |-> hp.compression, width |-> hp.width,
                      height |-> hp.height, dataWinMinY |-> hp.dataWinMinY,
                      channels |-> sorted,
                      rIdx |-> findCh(sorted, NamesR, 1),
                      gIdx |-> findCh(sorted, NamesG, 1),
                      bIdx |-> findCh(sorted, NamesB, 1),
                      offsets |-> ReadOffsets(d, hp.pos, count),
                      chunk |-> 0,
                      floats |-> [j \in 1..(hp.width * hp.height * 3) |-> 0]]]

\* DecompressionStream('deflate-raw'): one final stored block.
InflateRaw(z) ==
    LET n == B(z, 1) + 256 * B(z, 2)
    IN  IF /\ Len(z) >= 5 /\ z[1] = 1
           /\ z[4] = 255 - z[2] /\ z[5] = 255 - z[3]
           /\ Len(z) = 5 + n
        THEN [ok |-> TRUE, data |-> Slice(z, 5, 5 + n)]
        ELSE [ok |-> FALSE, data |-> <<>>]

\* inflate(compressed): zlib when the first two bytes look like a zlib header.
inflate(compressed) ==
    LET isZlib == At(compressed, 0) = 120 /\ At(compressed, 1) \in {156, 1, 218, 94}
    IN  IF isZlib THEN InflateZlib(compressed) ELSE InflateRaw(compressed)

\* readSample(buf, off, type)
readSample(buf, off, type) ==
    IF type = 1 THEN f16ToF32(B(buf, off) + 256 * B(buf, off + 1))
    ELSE f32FromBytes(B(buf, off), B(buf, off + 1), B(buf, off + 2), B(buf, off + 3))

\* Bytes of the channels before channel ci (0-based) in one scan line.
RECURSIVE ChannelOffset(_, _, _)
ChannelOffset(chans, width, ci) ==
    IF ci = 0 THEN 0
    ELSE ChannelOffset(chans, width, ci - 1) + width * bps(chans[ci].type)

\* lineSamples[ci][x] of line li of the chunk.
LineSample(pixelData, st, li, ci, x) ==
    LET lineBytes == ChannelOffset(st.channels, st.width, Len(st.channels))
    IN  readSample(pixelData,
                   li * lineBytes + ChannelOffset(st.channels, st.width, ci)
                     + x * bps(st.channels[ci + 1].type),
                   st.channels[ci + 1].type)

\* The stores of one chunk into floats.
ExrStore(pixelData, st, yStart, linesInChunk) ==
    [k \in 1..Len(st.floats) |->
        LET y == (k - 1) \div (3 * st.width)
            x == ((k - 1) % (3 * st.width)) \div 3
            li == y - (yStart - st.dataWinMinY)
            idx == << st.rIdx, st.gIdx, st.bIdx >>[((k - 1) % 3) + 1]
        IN  IF li >= 0 /\ li < linesInChunk
            THEN (IF idx >= 0 THEN LineSample(pixelData, st, li, idx, x) ELSE 0)
            ELSE st.floats[k]]

\* One iteration of the chunk loop.
ExrChunk(d, st) ==
    LET cpos == st.offsets[st.chunk + 1]
        yStart == getInt32(d, cpos)
        chunkDataSize == getInt32(d, cpos + 4)
        rawBytes == Slice(d, cpos + 8, cpos + 8 + chunkDataSize)
        linesInChunk == MathMin(linesPerChunk(st.compression),
                                st.height - (yStart - st.dataWinMinY))
        inflated == inflate(rawBytes)
    IN  IF ~InView(d, cpos, 8) THEN [res |-> DecodeError("RangeError"), st |-> st]
        ELSE IF st.compression # 0 /\ ~inflated.ok
        THEN [res |-> DecodeError("TypeError"), st |-> st]
        ELSE [res |-> DecodeOk(st.width, st.height, <<>>),
              st |-> [st EXCEPT
                        !.floats = ExrStore(IF st.compression = 0 THEN rawBytes
                                            ELSE exrUnpredict(inflated.data),
                                            st, yStart, linesInChunk),
                        !.chunk = st.chunk + 1]]

\* ---- Input files of the decoders ----

MaxDecW == 2
MaxDecH == 2
MaxCompression == 4

RECURSIVE Flat(_)
Flat(seqs) == IF seqs = <<>> THEN <<>> ELSE Head(seqs) \o Flat(Tail(seqs))

\* A picture: its first pixel and the pixel every other position holds.
PixelsOf(first, fill, n) == [j \in 1..n |-> IF j = 1 THEN first ELSE fill]

\* "#?RADIANCE\nFORMAT=32-bit_rle_rgbe\n\n" and the size line "-Y h +X w\n".
RGBE_SIGNATURE ==
    <<35, 63, 82, 65, 68, 73, 65, 78, 67, 69, 10, 70, 79, 82, 77, 65, 84, 61, 51, 50, 45,
      98, 105, 116, 95, 114, 108, 101, 95, 114, 103, 98, 101, 10, 10>>
RgbeHeader(w, h) ==
    RGBE_SIGNATURE \o <<45, 89, 32, 48 + h, 32, 43, 88, 32, 48 + w, 10>>

\* RGBE quads of 1.0 and of 250.0.
RgbeQuads == { <<4, 4, 4, 134>>, <<250, 250, 250, 136>> }
\* (128, 64, 32, 130) = (2.0, 1.0, 0.5), and a quad with exponent byte 0.
RgbeFirstQuads == RgbeQuads \cup { <<128, 64, 32, 130>>, <<9, 9, 9, 0>> }

RgbeFlatRow(quads) == Flat(quads)
\* New-RLE scanline: 2, 2, width, then each channel as a run or as literals.
RgbeRleRow(quads) ==
    LET w == Len(quads)
    IN  <<2, 2, w \div 256, w % 256>>
        \o Flat([ch \in 1..4 |->
                  IF \A x \in 1..w : quads[x][ch] = quads[1][ch]
                  THEN <<128 + w, quads[1][ch]>>
                  ELSE <<w>> \o [x \in 1..w |-> quads[x][ch]]])
RgbeFile(w, h, rle, quads) ==
    RgbeHeader(w, h)
    \o Flat([y \in 1..h |->
              IF rle THEN RgbeRleRow(SubSeq(quads, (y - 1) * w + 1, y * w))
              ELSE RgbeFlatRow(SubSeq(quads, (y - 1) * w + 1, y * w))])

I32LE(n) == <<n % 256, (n \div 256) % 256, (n \div 65536) % 256, (n \div 16777216) % 256>>
U64LE(n) == I32LE(n) \o <<0, 0, 0, 0>>
Z(s) == s \o <<0>>

\* Samples 1.0 and 250.0 as HALF and as FLOAT, low byte first.
ExrSamples ==
    { [half |-> <<0, 60>>, float |-> <<0, 0, 128, 63>>],
      [half |-> <<208, 91>>, float |-> <<0, 0, 122, 67>>] }
SampleBytes(s, type) == IF type = 1 THEN s.half ELSE s.float

ExrChannelEntry(name, type) == Z(name) \o I32LE(type) \o <<0, 0, 0, 0>> \o I32LE(1) \o I32LE(1)

\* Magic, version, then the attributes channels, compression, dataWindow,
\* lineOrder and the terminating zero byte.
ExrHeaderBytes(magicOk, tiled, comp, hasDW, w, h, type) ==
    LET chlist == ExrChannelEntry(<<66>>, type) \o ExrChannelEntry(<<71>>, type)
                  \o ExrChannelEntry(<<82>>, type) \o <<0>>
    IN  (IF magicOk THEN <<118, 47, 49, 1>> ELSE <<118, 47, 49, 2>>)
        \o <<2, IF tiled THEN 2 ELSE 0, 0, 0>>
        \o Z(S_channels) \o Z(<<99, 104, 108, 105, 115, 116>>) \o I32LE(Len(chlist)) \o chlist
        \o Z(S_compression) \o Z(S_compression) \o I32LE(1) \o <<comp>>
        \o (IF hasDW
            THEN Z(S_dataWindow) \o Z(<<98, 111, 120, 50, 105>>) \o I32LE(16)
                 \o I32LE(0) \o I32LE(0) \o I32LE(w - 1) \o I32LE(h - 1)
            ELSE <<>>)
        \o Z(<<108, 105, 110, 101, 79, 114, 100, 101, 114>>)
        \o Z(<<108, 105, 110, 101, 79, 114, 100, 101, 114>>) \o I32LE(1) \o <<0>>
        \o <<0>>

\* One scan line: the B, G and R samples of the row (the row holds grey pixels).
ExrLine(row, type) ==
    Flat([ch \in 1..3 |-> Flat([x \in 1..Len(row) |-> SampleBytes(row[x], type)])])

\* One chunk: yStart, dataSize, then the lines y0..y1 (0-based), ZIP/ZIPS
\* chunks predicted and deflated.
ExrChunkBytes(comp, samples, w, y0, y1, type) ==
    LET lines == Flat([y \in 1..(y1 - y0 + 1) |->
                        ExrLine(SubSeq(samples, (y0 + y - 1) * w + 1, (y0 + y) * w), type)])
        payload == IF comp \in {2, 3} THEN deflateRaw(RefPredict(lines)) ELSE lines
    IN  I32LE(y0) \o I32LE(Len(payload)) \o payload

RECURSIVE SumLen(_, _)
SumLen(seqs, n) == IF n = 0 THEN 0 ELSE SumLen(seqs, n - 1) + Len(seqs[n])

ExrFile(magicOk, tiled, comp, hasDW, w, h, type, samples) ==
    LET head == ExrHeaderBytes(magicOk, tiled, comp, hasDW, w, h, type)
        per == linesPerChunk(comp)
        count == (h + per - 1) \div per
        chunks == [c \in 1..count |->
                    ExrChunkBytes(comp, samples, w, (c - 1) * per, Min(c * per, h) - 1, type)]
        base == Len(head) + 8 * count
    IN  head
        \o Flat([c \in 1..count |-> U64LE(base + SumLen(chunks, c - 1))])
        \o Flat(chunks)

\* ---- Decoding and converting one dropped file ----

VARIABLES
    dc_file,    \* the bytes of the input file
    dc_meta,    \* how the file was written: format, defects, where its pixel data starts, its full length
    dc_st,      \* locals of _decodeEXR inside the chunk loop
    dc_res,     \* what the decoder returned or threw
    dc_out,     \* the result of convertHdrExrToPNG
    dc_pc

dc_vars == <<dc_file, dc_meta, dc_st, dc_res, dc_out, dc_pc>>

DecodeNone == [kind |-> "none", msg |-> "", width |-> 0, height |-> 0, floats |-> <<>>]

MetaOf(kind, magicOk, tiled, comp, hasDW, dataStart, full, quads) ==
    [kind |-> kind, magicOk |-> magicOk, tiled |-> tiled, compression |-> comp,
     hasDW |-> hasDW, dataStart |-> dataStart, full |-> full, quads |-> quads]

dc_Init ==
    /\ \E w \in 1..MaxDecW, h \in 1..MaxDecH :
        \/ \E rle \in BOOLEAN, first \in RgbeFirstQuads, fill \in RgbeQuads :
             \E whole \in { RgbeFile(w, h, rle, PixelsOf(first, fill, w * h)) } :
             \E cut \in Len(RgbeHeader(w, h))..Len(whole) :
                /\ dc_file = SubSeq(whole, 1, cut)
                /\ dc_meta = MetaOf("hdr", TRUE, FALSE, 0, TRUE,
                                    Len(RgbeHeader(w, h)), Len(whole),
                                    PixelsOf(first, fill, w * h))
        \/ \E comp \in {0, 2, 3}, type \in {1, 2}, first \in ExrSamples, fill \in ExrSamples :
             \E whole \in { ExrFile(TRUE, FALSE, comp, TRUE, w, h, type,
                                     PixelsOf(first, fill, w * h)) } :
             \E start \in { Len(ExrHeaderBytes(TRUE, FALSE, comp, TRUE, w, h, type)) } :
             \E cut \in start..Len(whole) :
                /\ dc_file = SubSeq(whole, 1, cut)
                /\ dc_meta = MetaOf("exr", TRUE, FALSE, comp, TRUE, start, Len(whole), <<>>)
        \/ \E magicOk \in BOOLEAN, tiled \in BOOLEAN, hasDW \in BOOLEAN,
              comp \in 0..MaxCompression, fill \in ExrSamples :
             \E whole \in { ExrFile(magicOk, tiled, comp, hasDW, w, h, 1,
                                     PixelsOf(fill, fill, w * h)) } :
                /\ dc_file = whole
                /\ dc_meta = MetaOf("exr", magicOk, tiled, comp, hasDW,
                                    Len(ExrHeaderBytes(magicOk, tiled, comp, hasDW, w, h, 1)),
                                    Len(whole), <<>>)
        \* an EXR file that ends inside its header
        \/ \E whole \in { ExrHeaderBytes(TRUE, FALSE, 0, TRUE, w, h, 1) } :
             \E cut \in 0..(Len(whole) - 1) :
                /\ dc_file = SubSeq(whole, 1, cut)
                /\ dc_meta = MetaOf("exr", TRUE, FALSE, 0, TRUE, Len(whole), Len(whole), <<>>)
    /\ dc_st = ExrNoState
    /\ dc_res = DecodeNone
    /\ dc_out = OutNone
    /\ dc_pc = "start"

dc_Idle ==
    /\ dc_file = <<>>
    /\ dc_meta = MetaOf("none", TRUE, FALSE, 0, TRUE, 0, 0, <<>>)
    /\ dc_st = ExrNoState
    /\ dc_res = DecodeNone
    /\ dc_out = OutNone
    /\ dc_pc = "idle"

\* ext === 'hdr': d = _decodeRGBE(inputData)
DecodeRGBE ==
    /\ dc_pc = "start"
    /\ dc_meta.kind = "hdr"
    /\ dc_res' = decodeRGBE(dc_file)
    /\ dc_pc' = IF dc_res'.kind = "ok" THEN "decoded" ELSE dc_res'.kind
    /\ UNCHANGED <<dc_file, dc_meta, dc_st, dc_out>>

\* _decodeEXR from its first line to the entry of the chunk loop.
ExrParseHeader ==
    /\ dc_pc = "start"
    /\ dc_meta.kind = "exr"
    /\ LET opened == ExrOpen(dc_file)
       IN  IF opened.res.kind = "ok"
           THEN /\ dc_st' = opened.st
                /\ dc_pc' = "chunks"
                /\ UNCHANGED dc_res
           ELSE /\ dc_res' = opened.res
                /\ dc_pc' = opened.res.kind
                /\ UNCHANGED dc_st
    /\ UNCHANGED <<dc_file, dc_meta, dc_out>>

\* for (chunk = 0; chunk < numChunks; chunk++) { ... }: one iteration.
ExrReadChunk ==
    /\ dc_pc = "chunks"
    /\ dc_st.chunk < Len(dc_st.offsets)
    /\ LET step == ExrChunk(dc_file, dc_st)
       IN  IF step.res.kind = "ok"
           THEN /\ dc_st' = step.st
                /\ UNCHANGED <<dc_res, dc_pc>>
           ELSE /\ dc_res' = step.res
                /\ dc_pc' = "error"
                /\ UNCHANGED dc_st
    /\ UNCHANGED <<dc_file, dc_meta, dc_out>>

\* return { width, height, floats }
ExrReturn ==
    /\ dc_pc = "chunks"
    /\ dc_st.chunk = Len(dc_st.offsets)
    /\ dc_res' = DecodeOk(dc_st.width, dc_st.height, dc_st.floats)
    /\ dc_pc' = "decoded"
    /\ UNCHANGED <<dc_file, dc_meta, dc_st, dc_out>>

PixelAt(floats, i) == << floats[3 * i - 2], floats[3 * i - 1], floats[3 * i] >>

RECURSIVE GamutOf(_, _, _)
GamutOf(variant, floats, n) ==
    IF n = 0 THEN NoCounts
    ELSE ClassifyPixel(variant, GamutOf(variant, floats, n - 1), PixelAt(floats, n))

\* convertHdrExrToPNG after the decoder returned: encode every pixel, build the PNG.
ConvertDecoded ==
    /\ dc_pc = "decoded"
    /\ LET n == dc_res.width * dc_res.height
           hdrBuf == Flat([i \in 1..n |-> HdrBytes("hdrexr", PixelAt(dc_res.floats, i))])
       IN  dc_out' = [kind |-> "png",
                      hdrFile |-> buildPNG16(hdrBuf, dc_res.width, dc_res.height, 8, FloatPathCicp),
                      gamut |-> CoverageRecord(GamutOf("hdrexr", dc_res.floats, n))]
    /\ dc_pc' = "done"
    /\ UNCHANGED <<dc_file, dc_meta, dc_st, dc_res>>

\* The header is complete and the file ends before its last byte.
Truncated == Len(dc_file) >= dc_meta.dataStart /\ Len(dc_file) < dc_meta.full

\* C6: a .hdr or .exr file whose header is complete but whose pixel data
\* ends early never yields decoded samples or an output file; the conversion
\* can only end in an error.
C6_TruncatedInputFails ==
    (dc_pc # "idle" /\ Truncated) => dc_pc \in {"start", "chunks", "error"}

ExrDefect ==
    \/ ~dc_meta.magicOk
    \/ dc_meta.tiled
    \/ dc_meta.compression \notin {0, 2, 3}

\* The message the first failing check of _decodeEXR throws for the file.
ExrExpectedError ==
    IF ~dc_meta.magicOk THEN "Not an OpenEXR file"
    ELSE IF dc_meta.tiled THEN "Tiled EXR not supported - only scan-line EXR"
    ELSE IF ~dc_meta.hasDW THEN "EXR: missing dataWindow attribute"
    ELSE "EXR: unsupported compression type"

\* C7: an EXR file with a wrong magic number, the tiled bit set, or a
\* compression type other than 0, 2, 3 is rejected with the error of the
\* first failing check; no sample buffer is returned and no chunk has been
\* read (the chunk loop is never entered).
C7_ExrRejectsUnsupported ==
    (dc_meta.kind = "exr" /\ ExrDefect /\ dc_pc # "start") =>
        /\ dc_pc = "error"
        /\ dc_res.kind = "error"
        /\ dc_res.msg = ExrExpectedError
        /\ dc_res.floats = <<>>
        /\ dc_st = ExrNoState
        /\ dc_out = OutNone

C7_Witness ==
    /\ dc_meta.kind = "exr"
    /\ dc_meta.magicOk /\ ~dc_meta.tiled /\ dc_meta.hasDW
    /\ dc_meta.compression = 1
    /\ dc_pc = "error"
    /\ dc_res.msg = "EXR: unsupported compression type"

\* C11: every quad (R, G, B, E) of a complete .hdr file decodes to
\* (R, G, B) * 2^(E - 136), and to (0, 0, 0) when E = 0 (floats are in units
\* of 1/LIN).
C11_RgbeValues ==
    (dc_meta.kind = "hdr" /\ ~Truncated /\ dc_pc \in {"decoded", "done"}) =>
        /\ Len(dc_res.floats) = 3 * Len(dc_meta.quads)
        /\ \A i \in 1..Len(dc_meta.quads), c \in 1..3 :
            LET quad == dc_meta.quads[i]
                out == dc_res.floats[3 * (i - 1) + c]
            IN  IF quad[4] = 0 THEN out = 0
                ELSE IF quad[4] <= 136 THEN out * 2 ^ (136 - quad[4]) = LIN * quad[c]
                ELSE out = LIN * quad[c] * 2 ^ (quad[4] - 136)

\* The one-pixel flat file holding (128, 64, 32, 130) has decoded to (2.0, 1.0, 0.5).
C11_Witness ==
    /\ dc_meta.kind = "hdr" /\ ~Truncated
    /\ dc_meta.quads = << <<128, 64, 32, 130>> >>
    /\ Slice(dc_file, dc_meta.dataStart, dc_meta.full) = <<128, 64, 32, 130>>
    /\ dc_pc = "decoded"
    /\ dc_res.floats = <<2 * LIN, LIN, LIN \div 2>>

\* C21: on every finite input _decodeRGBE and _decodeEXR return or throw
\* after finitely many steps.  A loop whose exit condition can no longer
\* change (an undefined RLE code leaves x where it is, readStr finds no zero
\* byte before or after the end of the data) is the outcome "spin": the
\* decoder neither returns nor throws, so the claim is that no conversion is
\* ever in "spin".
C21_DecodersTerminate == dc_pc # "spin"

(***************************************************************************)
(* ISOBMFF box scans: parseAVIFCICP, parseAVIFMetadata, the SDR probe      *)
(***************************************************************************)
\* The scan limits 200000, 300000 and 50000 of the source, scaled down in
\* proportion so that files of the model can be longer than each of them.
CicpScanLimit == 68
MetaScanLimit == 76
SdrProbeLimit == 60

\* (d[o]<<24 | d[o+1]<<16 | d[o+2]<<8 | d[o+3]) >>> 0.  A size of 2^30 or
\* more is past every buffer of the model and is kept as 2^30.
BoxSize(d, o) == IF B(d, o) >= 64 THEN 2 ^ 30 ELSE ReadU32BE(d, o)
\* (d[o] << 8) | d[o+1]
U16BE(d, o) == 256 * B(d, o) + B(d, o + 1)

\* What a scan has done so far: the highest index read (-1: none), the
\* smallest amount a loop iteration added to its offset (0: no iteration has
\* advanced yet), the number of loop iterations begun.
NoTrace == [top |-> -1, adv |-> 0, iters |-> 0]
Touch(tr, idx) == [tr EXCEPT !.top = Max(@, idx)]
Advance(tr, n) == [tr EXCEPT !.adv = IF @ = 0 THEN n ELSE Min(@, n)]

T_colr == <<99, 111, 108, 114>>
T_nclx == <<110, 99, 108, 120>>
T_meta == <<109, 101, 116, 97>>
T_mdat == <<109, 100, 97, 116>>
\* moov trak mdia minf stbl stsd av01 avio ipco iprp moof traf
CONTAINERS ==
    { <<109, 111, 111, 118>>, <<116, 114, 97, 107>>, <<109, 100, 105, 97>>,
      <<109, 105, 110, 102>>, <<115, 116, 98, 108>>, <<115, 116, 115, 100>>,
      <<97, 118, 48, 49>>, <<97, 118, 105, 111>>, <<105, 112, 99, 111>>,
      <<105, 112, 114, 112>>, <<109, 111, 111, 102>>, <<116, 114, 97, 102>> }
\* Mutant: no box is descended into as a FullBox.
FULL_CONTAINERS_none == {}
\* meta iinf
FULL_CONTAINERS == { T_meta, <<105, 105, 110, 102>> }

CicpNotFound(tr) == [found |-> FALSE, primaries |-> 0, transfer |-> 0, tr |-> tr]

\* parseAVIFCICP.scanBoxes(data, start, end)
RECURSIVE scanBoxes(_, _, _, _)
scanBoxes(data, offset, end, tr) ==
    IF ~(offset < end - 8) THEN CicpNotFound(tr)
    ELSE LET cSize == BoxSize(data, offset)
             cType == Slice(data, offset + 4, offset + 8)
             cIsColr == cType = T_colr /\ offset + 16 <= end
             cSized == [Touch(tr, offset + 3) EXCEPT !.iters = @ + 1]
             cTyped == Touch(cSized, IF cIsColr THEN offset + 11 ELSE offset + 7)
             cChild == IF cType \in CONTAINERS
                       THEN scanBoxes(data, offset + 8, offset + cSize, cTyped)
                       ELSE IF cType \in FULL_CONTAINERS
                       THEN scanBoxes(data, offset + 12, offset + cSize, cTyped)
                       ELSE CicpNotFound(cTyped)
         IN  IF cSize < 8 \/ offset + cSize > end THEN CicpNotFound(cSized)
             ELSE IF cIsColr /\ Slice(data, offset + 8, offset + 12) = T_nclx
             THEN [found |-> TRUE,
                   primaries |-> U16BE(data, offset + 12),
                   transfer |-> U16BE(data, offset + 14),
                   tr |-> Touch(cTyped, offset + 15)]
             ELSE IF cChild.found THEN cChild
             ELSE IF cType = T_mdat THEN CicpNotFound(cChild.tr)
             ELSE scanBoxes(data, offset + cSize, end, Advance(cChild.tr, cSize))

\* Mutant: the scan runs to the end of the data.
parseAVIFCICP_noLimit(data) == scanBoxes(data, 0, Len(data), NoTrace)

\* scanBoxes(data, 0, Math.min(data.length, 200000))
parseAVIFCICP(data) == scanBoxes(data, 0, Min(Len(data), CicpScanLimit), NoTrace)

\* The closure variables of parseAVIFMetadata that walk assigns (-1: null;
\* luminances in units of 1/10000), with the trace of the walk.
MetaStart ==
    [bitDepth |-> 12, colorPrimaries |-> -1, transferCharacteristic |-> -1,
     maxCLL |-> -1, maxFALL |-> -1, maxLuminance |-> -1, minLuminance |-> -1,
     tr |-> NoTrace]

\* parseAVIFMetadata.walk(start, end)
RECURSIVE walk(_, _, _, _)
walk(data, off, end, acc) ==
    IF ~(off + 8 <= end) THEN acc
    ELSE LET wSize == BoxSize(data, off)
             wType == Slice(data, off + 4, off + 8)
             wSized == [acc EXCEPT !.tr = [Touch(@, off + 3) EXCEPT !.iters = @ + 1]]
             wTyped == [wSized EXCEPT !.tr = Touch(@, off + 7)]
             wRead ==
                IF wType = T_colr /\ off + 18 <= end
                THEN IF Slice(data, off + 8, off + 12) = T_nclx
                     THEN [wTyped EXCEPT !.colorPrimaries = U16BE(data, off + 12),
                                         !.transferCharacteristic = U16BE(data, off + 14),
                                         !.tr = Touch(@, off + 15)]
                     ELSE [wTyped EXCEPT !.tr = Touch(@, off + 11)]
                ELSE IF wType = <<112, 105, 120, 105>> /\ off + 14 <= end   \* pixi
                THEN [wTyped EXCEPT !.bitDepth = IF B(data, off + 13) > 0
                                                 THEN B(data, off + 13) ELSE @,
                                    !.tr = Touch(@, off + 13)]
                ELSE IF wType = <<99, 108, 108, 105>> /\ off + 12 <= end    \* clli
                THEN [wTyped EXCEPT !.maxCLL = U16BE(data, off + 8),
                                    !.maxFALL = U16BE(data, off + 10),
                                    !.tr = Touch(@, off + 11)]
                ELSE IF wType = <<109, 100, 99, 118>> /\ off + 40 <= end    \* mdcv
                THEN [wTyped EXCEPT !.maxLuminance = BoxSize(data, off + 32),
                                    !.minLuminance = BoxSize(data, off + 36),
                                    !.tr = Touch(@, off + 39)]
                ELSE wTyped
             wChild == IF wType \in CONTAINERS THEN walk(data, off + 8, off + wSize, wRead)
                       ELSE IF wType \in FULL_CONTAINERS
                       THEN walk(data, off + 12, off + wSize, wRead)
                       ELSE wRead
         IN  IF wSize < 8 \/ off + wSize > end THEN wSized
             ELSE IF wType = T_mdat THEN wTyped
             ELSE walk(data, off + wSize, end,
                       [wChild EXCEPT !.tr = Advance(@, wSize)])

\* parseAVIFMetadata up to the end of the walk; found is FALSE where it returns null early.
parseAVIFMetadata(data) ==
    IF Len(data) < 12 \/ Slice(data, 4, 8) # T_ftyp
    THEN [found |-> FALSE, meta |-> MetaStart]
    ELSE [found |-> TRUE, meta |-> walk(data, 0, Min(Len(data), MetaScanLimit), MetaStart)]

\* iprp ipco moov trak mdia minf stbl stsd
SDR_CONTAINERS ==
    { <<105, 112, 114, 112>>, <<105, 112, 99, 111>>, <<109, 111, 111, 118>>,
      <<116, 114, 97, 107>>, <<109, 100, 105, 97>>, <<109, 105, 110, 102>>,
      <<115, 116, 98, 108>>, <<115, 116, 115, 100>> }

\* detectSdrFiles.findColrTransfer(buf, start, end); result -1 is null.
RECURSIVE findColrTransfer(_, _, _, _)
findColrTransfer(buf, off, end, tr) ==
    IF ~(off + 8 <= end /\ off + 8 <= Len(buf)) THEN [result |-> -1, tr |-> tr]
    ELSE LET sSize == BoxSize(buf, off)
             boxEnd == Min(Min(off + sSize, end), Len(buf))
             sType == Slice(buf, off + 4, off + 8)
             sIsColr == sType = T_colr /\ boxEnd >= off + 16
             sSized == [Touch(tr, off + 3) EXCEPT !.iters = @ + 1]
             sTyped == Touch(sSized, IF sIsColr THEN off + 11 ELSE off + 7)
             sChild == IF sType = T_meta THEN findColrTransfer(buf, off + 12, boxEnd, sTyped)
                       ELSE IF sType \in SDR_CONTAINERS
                       THEN findColrTransfer(buf, off + 8, boxEnd, sTyped)
                       ELSE [result |-> -1, tr |-> sTyped]
         IN  IF sSize < 8 THEN [result |-> -1, tr |-> sSized]
             ELSE IF sIsColr /\ Slice(buf, off + 8, off + 12) = T_nclx
             THEN [result |-> U16BE(buf, off + 14), tr |-> Touch(sTyped, off + 15)]
             ELSE IF sChild.result # -1 THEN sChild
             ELSE findColrTransfer(buf, off + sSize, end, Advance(sChild.tr, sSize))

\* ---- Files handed to the box scans ----

\* A property box: colr/nclx with a transfer characteristic (19 bytes), two
\* colr/nclx boxes, colr/prof, pixi, clli, mdcv, a free box, or mdcv followed
\* by colr/nclx.
PropertyKinds ==
    {"nclx1", "nclx2", "nclx16", "pair", "prof", "pixi", "clli", "mdcv", "free", "late"}
NclxBox(transfer) == U32BE(19) \o T_colr \o T_nclx \o <<0, 9, 0, transfer, 0, 9, 128>>
PropertyBox(kind) ==
    CASE kind = "nclx1" -> NclxBox(1)
      [] kind = "nclx2" -> NclxBox(2)
      [] kind = "nclx16" -> NclxBox(16)
      [] kind = "pair" -> NclxBox(18) \o NclxBox(13)
      [] kind = "prof" -> U32BE(12) \o T_colr \o <<112, 114, 111, 102>>
      [] kind = "pixi" -> U32BE(16) \o <<112, 105, 120, 105>> \o <<0, 0, 0, 0, 3, 10, 10, 10>>
      [] kind = "clli" -> U32BE(12) \o <<99, 108, 108, 105>> \o <<3, 232, 0, 200>>
      [] kind = "mdcv" -> U32BE(40) \o <<109, 100, 99, 118>> \o [j \in 1..24 |-> 0]
                          \o U32BE(10000000) \o U32BE(50)
      [] kind = "free" -> U32BE(8) \o <<102, 114, 101, 101>>
      [] kind = "late" -> U32BE(40) \o <<109, 100, 99, 118>> \o [j \in 1..32 |-> 0]
                          \o NclxBox(16)

\* The box with another size field: zero, 2^32 - 1, or 8 more than it holds.
SizeKinds == {"exact", "zero", "huge", "long"}
Resize(box, how) ==
    CASE how = "exact" -> box
      [] how = "zero" -> <<0, 0, 0, 0>> \o Slice(box, 4, Len(box))
      [] how = "huge" -> <<255, 255, 255, 255>> \o Slice(box, 4, Len(box))
      [] how = "long" -> U32BE(ReadU32BE(box, 0) + 8) \o Slice(box, 4, Len(box))

\* The property box at the top level, in ipco, in meta, in iinf, in
\* meta > iprp > ipco, or after an mdat box.
WrapKinds == {"none", "ipco", "meta", "iinf", "deep", "mdat"}
Wrap(content, how) ==
    LET ipco == U32BE(8 + Len(content)) \o <<105, 112, 99, 111>> \o content
        iprp == U32BE(8 + Len(ipco)) \o <<105, 112, 114, 112>> \o ipco
    IN  CASE how = "none" -> content
          [] how = "ipco" -> ipco
          [] how = "meta" -> U32BE(12 + Len(content)) \o T_meta \o <<0, 0, 0, 0>> \o content
          [] how = "iinf" -> U32BE(12 + Len(content)) \o <<105, 105, 110, 102>> \o <<0, 0, 0, 0>> \o content
          [] how = "deep" -> U32BE(12 + Len(iprp)) \o T_meta \o <<0, 0, 0, 0>> \o iprp
          [] how = "mdat" -> U32BE(8) \o T_mdat \o content

AvifBytes(ftyp, wrap, wrapSize, kind, size) ==
    (IF ftyp THEN U32BE(12) \o T_ftyp \o <<97, 118, 105, 102>> ELSE <<>>)
    \o Resize(Wrap(Resize(PropertyBox(kind), size), wrap), wrapSize)

\* The first 33 bytes of a PNG: signature, IHDR length and type, 1 x 1,
\* bit depth, colour type 6, and the rest of the chunk.
PngHeader(sigOk, depth) ==
    (IF sigOk THEN PNG_SIG ELSE <<0>> \o Slice(PNG_SIG, 1, 8))
    \o U32BE(13) \o T_IHDR \o U32BE(1) \o U32BE(1) \o <<depth, 6, 0, 0, 0, 0, 0, 0, 0>>

\* Mutant: only PQ counts as an HDR transfer characteristic.
IsHdrTransfer_pqOnly(transferCode) == transferCode = 16

\* isHdr = transferCode === 16 || transferCode === 18
IsHdrTransfer(transferCode) == transferCode \in {16, 18}

\* One iteration of the loop of detectSdrFiles: the reason pushed for the
\* file ("" when none is) and the trace of the probe.
SdrCheck(file) ==
    LET header == Slice(file.data, 0, 33)
        chunk == Slice(file.data, 0, Min(Len(file.data), SdrProbeLimit))
        probe == findColrTransfer(chunk, 0, Len(chunk), NoTrace)
        pass == [reason |-> "", tr |-> NoTrace]
    IN  IF file.ext \in {".exr", ".hdr", ".jxr"} THEN pass
        ELSE IF file.ext = ".png"
        THEN IF Slice(header, 0, 4) # Slice(PNG_SIG, 0, 4) THEN pass
             ELSE IF At(header, 24) = 8 THEN [reason |-> "8-bit PNG (SDR)", tr |-> NoTrace]
             ELSE pass
        ELSE IF file.ext = ".avif"
        THEN IF Len(chunk) < 12 \/ Slice(chunk, 4, 8) # T_ftyp THEN pass
             ELSE IF IsHdrTransfer(probe.result) THEN [reason |-> "", tr |-> probe.tr]
             ELSE [reason |->
                      IF probe.result = 13 THEN "AVIF with sRGB transfer function"
                      ELSE IF probe.result = 1 THEN "AVIF with BT.709 transfer function"
                      ELSE "AVIF with no HDR transfer function (PQ/HLG) detected",
                   tr |-> probe.tr]
        ELSE pass

\* detectSdrFiles(files): the rejected entries in file order, and the
\* traces of the probes that ran.
RECURSIVE detectSdrFiles(_, _)
detectSdrFiles(files, n) ==
    IF n = 0 THEN [rejected |-> <<>>, probes |-> <<>>]
    ELSE LET before == detectSdrFiles(files, n - 1)
             this == SdrCheck(files[n])
         IN  [rejected |-> IF this.reason = "" THEN before.rejected
                           ELSE Append(before.rejected, [file |-> n, reason |-> this.reason]),
              probes |-> Append(before.probes, this.tr)]

VARIABLES
    pr_file,    \* the dropped file: extension (lower case, with the dot) and bytes
    pr_cicp,    \* what parseAVIFCICP returned
    pr_meta,    \* what parseAVIFMetadata collected
    pr_sdr,     \* what detectSdrFiles returned
    pr_pc

pr_vars == <<pr_file, pr_cicp, pr_meta, pr_sdr, pr_pc>>

pr_Init ==
    /\ \/ \E ftyp \in BOOLEAN, wrap \in WrapKinds, wrapSize \in {"exact", "huge"},
             kind \in PropertyKinds, size \in SizeKinds :
            \E whole \in { AvifBytes(ftyp, wrap, wrapSize, kind, size) } :
            \E cut \in 0..Len(whole) :
               pr_file = [ext |-> ".avif", data |-> SubSeq(whole, 1, cut)]
       \/ \E sigOk \in BOOLEAN, depth \in {8, 16} :
            \E whole \in { PngHeader(sigOk, depth) } :
            \E cut \in 0..Len(whole) :
               pr_file = [ext |-> ".png", data |-> SubSeq(whole, 1, cut)]
       \/ \E ext \in {".exr", ".hdr", ".jxr", ".jpg"} :
            \E data \in { PngHeader(TRUE, 8), AvifBytes(TRUE, "none", "exact", "nclx1", "exact") } :
               pr_file = [ext |-> ext, data |-> data]
    /\ pr_cicp = CicpNotFound(NoTrace)
    /\ pr_meta = [found |-> FALSE, meta |-> MetaStart]
    /\ pr_sdr = [rejected |-> <<>>, probes |-> <<>>]
    /\ pr_pc = "start"

pr_Idle ==
    /\ pr_file = [ext |-> "", data |-> <<>>]
    /\ pr_cicp = CicpNotFound(NoTrace)
    /\ pr_meta = [found |-> FALSE, meta |-> MetaStart]
    /\ pr_sdr = [rejected |-> <<>>, probes |-> <<>>]
    /\ pr_pc = "idle"

\* convertToPNG: if (ext === '.avif') cicp = parseAVIFCICP(inputData)
ParseCicp ==
    /\ pr_pc = "start"
    /\ pr_file.ext = ".avif"
    /\ pr_cicp' = parseAVIFCICP(pr_file.data)
    /\ pr_pc' = "cicp"
    /\ UNCHANGED <<pr_file, pr_meta, pr_sdr>>

\* getBasicImageMetadata: if (extension === '.avif') hdrMetadata = await parseAVIFMetadata(blob)
ParseMetadata ==
    /\ pr_pc = "start"
    /\ pr_file.ext = ".avif"
    /\ pr_meta' = parseAVIFMetadata(pr_file.data)
    /\ pr_pc' = "meta"
    /\ UNCHANGED <<pr_file, pr_cicp, pr_sdr>>

\* sdrFiles = await detectSdrFiles(allowedFiles), for the batch of this one file.
DetectSdrFiles ==
    /\ pr_pc = "start"
    /\ pr_sdr' = detectSdrFiles(<<pr_file>>, 1)
    /\ pr_pc' = "sdr"
    /\ UNCHANGED <<pr_file, pr_cicp, pr_meta>>

\* The trace of the scan that ran, its limit, and whether one ran.
ScanRan == pr_pc \in {"cicp", "meta"} \/ (pr_pc = "sdr" /\ pr_sdr.probes[1].iters > 0)
ScanTrace ==
    CASE pr_pc = "cicp" -> pr_cicp.tr
      [] pr_pc = "meta" -> pr_meta.meta.tr
      [] pr_pc = "sdr" -> pr_sdr.probes[1]
      [] OTHER -> NoTrace
ScanEnd ==
    Min(Len(pr_file.data),
        CASE pr_pc = "cicp" -> CicpScanLimit
          [] pr_pc = "meta" -> MetaScanLimit
          [] OTHER -> SdrProbeLimit)

\* C15: each of the three box scans ends (it begins no more loop iterations
\* than there are offsets below its limit), every iteration that continues
\* adds at least 8 to the offset, and no byte at or beyond the scan limit or
\* the end of the data is read.
C15_BoxScansBounded ==
    /\ ScanTrace.iters <= ScanEnd
    /\ ScanTrace.adv = 0 \/ ScanTrace.adv >= 8
    /\ ScanTrace.top < ScanEnd

\* A scan of a file longer than its limit that advanced past the first box
\* and stopped at a box reaching beyond the limit.
C15_Witness ==
    /\ pr_pc = "cicp"
    /\ Len(pr_file.data) > CicpScanLimit
    /\ pr_cicp.tr.iters >= 2
    /\ pr_cicp.tr.adv >= 8
    /\ pr_cicp.tr.top >= 15
    /\ ~pr_cicp.found

\* The transfer characteristic of the first colr/nclx box of a property box
\* (0 when it holds none); its primaries are always 9.
FirstNclxTransfer(kind) ==
    CASE kind = "nclx1" -> 1
      [] kind = "nclx2" -> 2
      [] kind = "nclx16" -> 16
      [] kind = "pair" -> 18
      [] kind = "late" -> 16
      [] OTHER -> 0

\* C24: when a colr/nclx box lies at the top level, in a plain container
\* (ipco), in a FullBox container (meta, iinf) or in meta > iprp > ipco, in a file of
\* well-formed boxes inside the scanned prefix, parseAVIFCICP returns the
\* primaries and the transfer characteristic of the first such box, read as
\* big-endian 16-bit values at box offsets 12 and 14; and when the box follows
\* an mdat box at the same level nothing is returned and no byte behind the
\* mdat box header is read.
C24_NclxFound ==
    pr_pc = "cicp" =>
        \A ftyp \in BOOLEAN, wrap \in WrapKinds, kind \in PropertyKinds :
            (/\ FirstNclxTransfer(kind) # 0
             /\ pr_file.data = AvifBytes(ftyp, wrap, "exact", kind, "exact")
             /\ Len(pr_file.data) <= CicpScanLimit)
            => IF wrap = "mdat"
               THEN /\ ~pr_cicp.found
                    /\ pr_cicp.tr.top < (IF ftyp THEN 12 ELSE 0) + 8
               ELSE /\ pr_cicp.found
                    /\ pr_cicp.primaries = 9
                    /\ pr_cicp.transfer = FirstNclxTransfer(kind)

\* ftyp, meta > iprp > ipco > colr/nclx (PQ): found through a FullBox and two
\* plain containers.
C24_Witness ==
    /\ pr_pc = "cicp"
    /\ pr_file.data = AvifBytes(TRUE, "deep", "exact", "nclx16", "exact")
    /\ pr_cicp.found
    /\ pr_cicp.primaries = 9
    /\ pr_cicp.transfer = 16

\* An imported .avif goes through both parsers: convertToPNG reads its tag
\* with parseAVIFCICP, getBasicImageMetadata with parseAVIFMetadata.
ParseBoth ==
    /\ pr_pc = "start"
    /\ pr_file.ext = ".avif"
    /\ pr_cicp' = parseAVIFCICP(pr_file.data)
    /\ pr_meta' = parseAVIFMetadata(pr_file.data)
    /\ pr_pc' = "both"
    /\ UNCHANGED <<pr_file, pr_sdr>>

\* C29: on a file that starts with an ftyp box, parseAVIFCICP and
\* parseAVIFMetadata agree on the colour tag: both find no colr/nclx box, or
\* both report the same primaries and the same transfer characteristic.
C29_ParsersAgree ==
    (/\ pr_pc = "both"
     /\ Len(pr_file.data) >= 12
     /\ Slice(pr_file.data, 4, 8) = T_ftyp)
    => IF pr_cicp.found
       THEN /\ pr_meta.meta.colorPrimaries = pr_cicp.primaries
            /\ pr_meta.meta.transferCharacteristic = pr_cicp.transfer
       ELSE /\ pr_meta.meta.colorPrimaries = -1
            /\ pr_meta.meta.transferCharacteristic = -1

\* What the SDR probe sees of the dropped file: its first SdrProbeLimit bytes,
\* the transfer characteristic the probe finds there (-1 when none), and
\* whether detectSdrFiles rejected the file.
SdrChunk == Slice(pr_file.data, 0, Min(Len(pr_file.data), SdrProbeLimit))
SdrTransfer == findColrTransfer(SdrChunk, 0, Len(SdrChunk), NoTrace).result
SdrRejected == Len(pr_sdr.rejected) = 1

\* C12 as stated: .exr/.hdr/.jxr are never rejected, a .png is rejected exactly
\* when byte 24 (the IHDR bit depth) is 8, and a .avif exactly when the nclx
\* transfer characteristic found in the probed prefix is 1 or 13 or none is
\* found.
C12_AsStated ==
    pr_pc = "sdr" =>
        /\ pr_file.ext \in {".exr", ".hdr", ".jxr"} => ~SdrRejected
        /\ pr_file.ext = ".png" => (SdrRejected <=> At(pr_file.data, 24) = 8)
        /\ pr_file.ext = ".avif" => (SdrRejected <=> SdrTransfer \in {1, 13, -1})

\* C12: detectSdrFiles never rejects a .exr, .hdr or .jxr file; it rejects a
\* .png exactly when the file starts with the first four PNG signature bytes
\* and byte 24 is 8; it rejects a .avif exactly when the probed prefix has at
\* least 12 bytes with 'ftyp' at bytes 4..7 and the transfer characteristic
\* found there is neither 16 nor 18 (none found included); files of any other
\* extension are not rejected.
C12_SdrRejection ==
    pr_pc = "sdr" =>
        /\ pr_file.ext \in {".exr", ".hdr", ".jxr"} => ~SdrRejected
        /\ pr_file.ext = ".png" =>
              (SdrRejected <=>
                  /\ Len(pr_file.data) >= 25
                  /\ SubSeq(pr_file.data, 1, 4) = <<137, 80, 78, 71>>
                  /\ pr_file.data[25] = 8)
        /\ pr_file.ext = ".avif" =>
              (SdrRejected <=>
                  /\ Len(SdrChunk) >= 12
                  /\ SubSeq(SdrChunk, 5, 8) = <<102, 116, 121, 112>>
                  /\ SdrTransfer \notin {16, 18})
        /\ pr_file.ext \notin {".exr", ".hdr", ".jxr", ".png", ".avif"} => ~SdrRejected

\* An AVIF whose nclx transfer characteristic is 2 (neither 1 nor 13) was
\* rejected: the probe found a transfer and the file was still flagged as
\* having no HDR transfer function.
C12_Witness ==
    /\ pr_pc = "sdr"
    /\ pr_file.ext = ".avif"
    /\ SdrTransfer = 2
    /\ SdrRejected
    /\ pr_sdr.rejected[1].reason = "AVIF with no HDR transfer function (PQ/HLG) detected"

(***************************************************************************)
(* Batch import: processFiles                                              *)
(***************************************************************************)

MaxFiles == 3

\* The two builds of the importer: the current one (all formats re-encoded,
\* one loop) and script.js (PNG native, a conversion loop then a store loop).
IMPORTERS == {"current", "script"}

NATIVE_EXTENSIONS(build) == IF build = "current" THEN {} ELSE {".png"}

CONVERT_EXTENSIONS(build) ==
    IF build = "current" THEN {".png", ".jxr", ".exr", ".hdr", ".avif"}
    ELSE {".avif", ".jxr", ".exr", ".hdr", ".tiff", ".tif", ".heic", ".heif"}

\* getFileExtension(file.name): a file carries its name and the extension
\* getFileExtension returns for it.
isAllowedFile(build, file) ==
    file.ext \in NATIVE_EXTENSIONS(build) \cup CONVERT_EXTENSIONS(build)

needsConversion(build, file) == file.ext \in CONVERT_EXTENSIONS(build)

\* The positions of seq, in order, whose element satisfies keep.
Filter(seq, keep(_)) ==
    LET RECURSIVE upTo(_)
        upTo(n) == IF n = 0 THEN <<>>
                   ELSE IF keep(seq[n]) THEN Append(upTo(n - 1), seq[n]) ELSE upTo(n - 1)
    IN  upTo(Len(seq))

\* `Failed to convert ${file.name}: ${err.message}`
ConvertFailedMessage(file) == <<"Failed to convert ", file.name, ": ", "decoder error">>

VARIABLES
    pf_build,     \* which importer runs
    pf_sel,       \* selectedFiles, each with what its conversion and its upload will do
    pf_env,       \* whether the user cancels the modal, whether getMagick() rejects
    pf_allowed,   \* allowedFiles, as positions of pf_sel
    pf_final,     \* finalFiles of script.js, as positions of pf_sel
    pf_i,         \* files the running loop has finished with
    pf_converted, \* positions whose convertToAVIF / convertToPNG returned
    pf_stored,    \* positions for which addImageFile returned, in order
    pf_status,    \* the messages passed to showStatusMessage, in order
    pf_shown,     \* statusMessage's content
    pf_steps,     \* _progressSteps is non-empty
    pf_pc

pf_vars == <<pf_build, pf_sel, pf_env, pf_allowed, pf_final, pf_i, pf_converted,
             pf_stored, pf_status, pf_shown, pf_steps, pf_pc>>

\* The files a user can drop: a JPEG XR, a PNG (which the SDR probe may flag)
\* and a GIF, each with the outcome of its conversion and of its upload.
DroppedFiles ==
    [name : {"a.jxr"}, ext : {".jxr"}, sdr : {FALSE},
     conv : {"ok", "throw"}, store : {"ok", "throw"}]
    \cup [name : {"b.png"}, ext : {".png"}, sdr : BOOLEAN,
          conv : {"ok", "throw"}, store : {"ok", "throw"}]
    \cup [name : {"c.gif"}, ext : {".gif"}, sdr : {FALSE}, conv : {"ok"}, store : {"ok"}]

pf_Init ==
    /\ pf_build \in IMPORTERS
    /\ \E n \in 1..MaxFiles : pf_sel \in [1..n -> DroppedFiles]
    /\ pf_env \in [cancel : BOOLEAN, magick : {"ok", "throw"}]
    /\ pf_allowed = <<>>
    /\ pf_final = <<>>
    /\ pf_i = 0
    /\ pf_converted = {}
    /\ pf_stored = <<>>
    /\ pf_status = <<>>
    /\ pf_shown = <<>>
    /\ pf_steps = FALSE
    /\ pf_pc = "start"

pf_Idle ==
    /\ pf_build = "current"
    /\ pf_sel = <<>>
    /\ pf_env = [cancel |-> FALSE, magick |-> "ok"]
    /\ pf_allowed = <<>>
    /\ pf_final = <<>>
    /\ pf_i = 0
    /\ pf_converted = {}
    /\ pf_stored = <<>>
    /\ pf_status = <<>>
    /\ pf_shown = <<>>
    /\ pf_steps = FALSE
    /\ pf_pc = "idle"

\* showStatusMessage(message): logged and shown.
Report(message) ==
    /\ pf_status' = Append(pf_status, message)
    /\ pf_shown' = message

\* What statusMessage holds after a progress update: showProgress of script.js
\* always draws; _renderProgress of the current build draws unless
\* _progressSteps is empty.
Rendered == IF pf_build = "script" \/ pf_steps THEN <<"progress">> ELSE pf_shown

\* processFiles up to its loops: the format filter, the SDR probe of the
\* current build, the import modal, getMagick() and initProgress.
SelectFiles ==
    /\ pf_pc = "start"
    /\ LET positions == [k \in 1..Len(pf_sel) |-> k]
           allowed == Filter(positions, LAMBDA k : isAllowedFile(pf_build, pf_sel[k]))
           sdrFiles == IF pf_build = "current"
                       THEN Filter(allowed, LAMBDA k : pf_sel[k].sdr) ELSE <<>>
           kept == Filter(allowed, LAMBDA k : ~pf_sel[k].sdr \/ pf_build # "current")
           toConvert == Filter(kept, LAMBDA k : needsConversion(pf_build, pf_sel[k]))
           needsMagick == IF pf_build = "current"
                          THEN \E j \in 1..Len(toConvert) : pf_sel[toConvert[j]].ext # ".jxr"
                          ELSE Len(toConvert) > 0
           native == Filter(kept, LAMBDA k : ~needsConversion(pf_build, pf_sel[k]))
       IN  IF Len(allowed) = 0
           THEN /\ Report(<<"No valid files selected">>)
                /\ pf_pc' = "returned"
                /\ UNCHANGED <<pf_allowed, pf_final, pf_steps>>
           ELSE IF Len(sdrFiles) > 0 /\ Len(sdrFiles) = Len(allowed)
           THEN /\ pf_pc' = "returned"
                /\ UNCHANGED <<pf_allowed, pf_final, pf_steps, pf_status, pf_shown>>
           ELSE IF pf_env.cancel
           THEN /\ pf_pc' = "returned"
                /\ UNCHANGED <<pf_allowed, pf_final, pf_steps, pf_status, pf_shown>>
           ELSE /\ pf_allowed' = kept
                /\ pf_final' = IF pf_build = "script" THEN native ELSE <<>>
                /\ IF needsMagick /\ pf_env.magick = "throw"
                   THEN /\ Report(<<"Failed to process files: ", "converter failed to load">>)
                        /\ pf_steps' = FALSE
                        /\ pf_pc' = "aborted"
                   ELSE /\ pf_shown' = IF pf_build = "current" \/ needsMagick
                                       THEN <<"progress">> ELSE pf_shown
                        /\ pf_steps' = (pf_build = "current")
                        /\ pf_pc' = IF pf_build = "current" THEN "import" ELSE "convert"
                        /\ UNCHANGED pf_status
    /\ UNCHANGED <<pf_build, pf_sel, pf_env, pf_i, pf_converted, pf_stored>>

\* A catch that lets the error of one conversion reach the catch around the
\* whole batch.
ConvertFailed_abort(file) ==
    /\ Report(<<"Failed to process files: ", "decoder error">>)
    /\ pf_steps' = FALSE
    /\ pf_i' = pf_i
    /\ pf_pc' = "aborted"
    /\ UNCHANGED <<pf_converted, pf_stored>>

\* What the catch around convertToAVIF does with the file that failed: hide
\* the progress bar, report, and go on to the next file.
ConvertFailed(file) ==
    /\ Report(ConvertFailedMessage(file))
    /\ pf_steps' = FALSE
    /\ pf_i' = pf_i + 1
    /\ pf_pc' = pf_pc
    /\ UNCHANGED <<pf_converted, pf_stored>>

\* extractMetadataFromFile, convertToSDR and generateThumb (each catches its
\* own failure), then addImageFile: stored, or the batch's catch.
StoreFile(k) ==
    IF pf_sel[k].store = "throw"
    THEN /\ Report(<<"Failed to process files: ", "upload failed">>)
         /\ pf_steps' = FALSE
         /\ pf_pc' = "aborted"
         /\ UNCHANGED <<pf_i, pf_stored>>
    ELSE /\ pf_stored' = Append(pf_stored, k)
         /\ pf_i' = pf_i + 1
         /\ pf_shown' = Rendered
         /\ UNCHANGED <<pf_status, pf_steps, pf_pc>>

\* One iteration of `for (const file of allowedFiles)` of the current build.
ImportFile ==
    /\ pf_pc = "import"
    /\ pf_i < Len(pf_allowed)
    /\ LET k == pf_allowed[pf_i + 1]
       IN  IF needsConversion(pf_build, pf_sel[k]) /\ pf_sel[k].conv = "throw"
           THEN ConvertFailed(pf_sel[k])
           ELSE /\ pf_converted' =
                     IF needsConversion(pf_build, pf_sel[k])
                     THEN pf_converted \cup {k} ELSE pf_converted
                /\ StoreFile(k)
    /\ UNCHANGED <<pf_build, pf_sel, pf_env, pf_allowed, pf_final>>

\* After the loop of the current build: hideProgress(), refreshGallery().
FinishImport ==
    /\ pf_pc = "import"
    /\ pf_i = Len(pf_allowed)
    /\ pf_shown' = <<>>
    /\ pf_steps' = FALSE
    /\ pf_pc' = "done"
    /\ UNCHANGED <<pf_build, pf_sel, pf_env, pf_allowed, pf_final, pf_i, pf_converted,
                   pf_stored, pf_status>>

\* script.js, one iteration of `for (const file of toConvert)`.
ConvertFile ==
    /\ pf_pc = "convert"
    /\ LET toConvert == Filter(pf_allowed, LAMBDA k : needsConversion(pf_build, pf_sel[k]))
       IN  /\ pf_i < Len(toConvert)
           /\ LET k == toConvert[pf_i + 1]
              IN  IF pf_sel[k].conv = "throw"
                  THEN /\ ConvertFailed(pf_sel[k])
                       /\ UNCHANGED pf_final
                  ELSE /\ pf_converted' = pf_converted \cup {k}
                       /\ pf_final' = Append(pf_final, k)
                       /\ pf_i' = pf_i + 1
                       /\ pf_shown' = <<"progress">>
                       /\ UNCHANGED <<pf_stored, pf_status, pf_steps, pf_pc>>
    /\ UNCHANGED <<pf_build, pf_sel, pf_env, pf_allowed>>

\* script.js between its loops: hideProgress(), and the early return when
\* nothing was converted.
StartAdding ==
    /\ pf_pc = "convert"
    /\ pf_i = Len(Filter(pf_allowed, LAMBDA k : needsConversion(pf_build, pf_sel[k])))
    /\ IF Len(pf_final) = 0
       THEN /\ Report(<<"No files could be processed">>)
            /\ pf_pc' = "done"
       ELSE /\ Report(<<"Adding files">>)
            /\ pf_pc' = "add"
    /\ pf_i' = 0
    /\ UNCHANGED <<pf_build, pf_sel, pf_env, pf_allowed, pf_final, pf_converted,
                   pf_stored, pf_steps>>

\* script.js, one iteration of `for (const file of finalFiles)`.
AddFile ==
    /\ pf_pc = "add"
    /\ pf_i < Len(pf_final)
    /\ StoreFile(pf_final[pf_i + 1])
    /\ UNCHANGED <<pf_build, pf_sel, pf_env, pf_allowed, pf_final, pf_converted>>

\* script.js after its store loop: refreshGallery() and the success message.
FinishAdding ==
    /\ pf_pc = "add"
    /\ pf_i = Len(pf_final)
    /\ Report(<<"Successfully added">>)
    /\ pf_pc' = "done"
    /\ UNCHANGED <<pf_build, pf_sel, pf_env, pf_allowed, pf_final, pf_i, pf_converted,
                   pf_stored, pf_steps>>

\* No operation of the batch other than a conversion fails: the modal is
\* confirmed, the converter loads and every upload succeeds.
NoOtherFailure ==
    /\ ~pf_env.cancel
    /\ pf_env.magick = "ok"
    /\ \A k \in 1..Len(pf_sel) : pf_sel[k].store = "ok"

ConversionFails(k) == needsConversion(pf_build, pf_sel[k]) /\ pf_sel[k].conv = "throw"

\* C13: a failing conversion never aborts the batch, and when the batch has
\* run to its end every allowed file whose conversion did not fail was
\* converted (when it needs conversion) and stored by addImageFile, and for
\* every file whose conversion failed a message naming that file was reported.
C13_ConversionFailureIsolated ==
    /\ NoOtherFailure => pf_pc # "aborted"
    /\ pf_pc = "done" =>
          \A j \in 1..Len(pf_allowed) :
             LET k == pf_allowed[j]
             IN  IF ConversionFails(k)
                 THEN /\ \A m \in 1..Len(pf_stored) : pf_stored[m] # k
                      /\ \E m \in 1..Len(pf_status) :
                            /\ pf_status[m] = ConvertFailedMessage(pf_sel[k])
                            /\ pf_status[m][2] = pf_sel[k].name
                 ELSE /\ \E m \in 1..Len(pf_stored) : pf_stored[m] = k
                      /\ needsConversion(pf_build, pf_sel[k]) => k \in pf_converted

\* A batch ran to its end in which one file's conversion failed and a file
\* after it in the batch was converted and stored.
C13_Witness ==
    /\ pf_pc = "done"
    /\ pf_build = "current"
    /\ \E i \in 1..Len(pf_allowed), j \in 1..Len(pf_allowed) :
          /\ i < j
          /\ ConversionFails(pf_allowed[i])
          /\ pf_allowed[j] \in pf_converted
          /\ \E m \in 1..Len(pf_stored) : pf_stored[m] = pf_allowed[j]

(***************************************************************************)
(* convertToAVIF and the statistics it attaches                            *)
(***************************************************************************)

MaxAvifPixels == 2

\* The 12-bit PQ codes an import can yield for one pixel (R, G, B; alpha is
\* 4095 throughout).
AvifPixels == { <<0, 0, 0>>, <<2048, 2048, 2048>>, <<4095, 0, 0>> }

NoLuminance == [present |-> FALSE, bitDepth |-> 0, transferCharacteristic |-> 0, of |-> <<>>]
NoCoverage == [present |-> FALSE, sourcePrimaries |-> "", of |-> <<>>]
NoStats == [present |-> FALSE, luminanceStats |-> NoLuminance, gamutCoverage |-> NoCoverage]

\* _statsFromU12PQ(u16pq, width, height): the luminance record, and the
\* coverage record unless no pixel was sampled (gTotal > 0 ? {...} : null).
\* The figures themselves are kept as "the statistics of this buffer".
statsFromU12PQ(u16pq) ==
    [present |-> TRUE,
     luminanceStats |-> [present |-> TRUE, bitDepth |-> 12, transferCharacteristic |-> 16,
                         of |-> u16pq],
     gamutCoverage |-> IF Len(u16pq) > 0
                       THEN [present |-> TRUE, sourcePrimaries |-> "BT.2020", of |-> u16pq]
                       ELSE NoCoverage]

\* _jxrGamut as convertJxrToPNG attaches it to the PNG of a float JPEG XR.
JxrGamut(codes) == [present |-> TRUE, sourcePrimaries |-> "BT.709/scRGB", of |-> codes]

ConvertThrown == [returned |-> FALSE, hdrFile |-> [ext |-> "", avifStats |-> NoStats, jxrGamut |-> NoCoverage]]
ConvertReturned(hdrFile) == [returned |-> TRUE, hdrFile |-> hdrFile]

\* The .png branch of convertToAVIF.
ConvertPngToAVIF(file) ==
    IF file.decode = "throw" THEN ConvertThrown
    ELSE LET stats == statsFromU12PQ(file.codes)
         IN  ConvertReturned(
               [ext |-> ".avif",
                avifStats |-> IF file.jxrGamut.present
                              THEN [stats EXCEPT !.gamutCoverage = file.jxrGamut]
                              ELSE stats,
                jxrGamut |-> NoCoverage])

\* _floatsToAVIF
floatsToAVIF(codes) ==
    ConvertReturned([ext |-> ".avif", avifStats |-> statsFromU12PQ(codes), jxrGamut |-> NoCoverage])

\* The PNG that convertJxrToPNG (integer paths) and convertToPNG (AVIF input)
\* hand back to convertToAVIF: a .png file without _jxrGamut.
IntermediatePng(file) == [file EXCEPT !.ext = ".png", !.jxrGamut = NoCoverage]

convertToAVIF(file) ==
    IF file.ext = ".png" THEN ConvertPngToAVIF(file)
    ELSE IF file.ext = ".jxr"
    THEN IF file.decode = "throw" THEN ConvertThrown
         ELSE IF file.bitDepth \notin {"16Float", "32Float"}
         THEN ConvertPngToAVIF(IntermediatePng(file))
         ELSE floatsToAVIF(file.codes)
    ELSE IF file.ext \in {".exr", ".hdr"}
    THEN IF file.decode = "throw" THEN ConvertThrown ELSE floatsToAVIF(file.codes)
    ELSE IF file.ext = ".avif"
    THEN IF file.decode = "throw" THEN ConvertThrown
         ELSE ConvertPngToAVIF(IntermediatePng(file))
    ELSE ConvertThrown

\* getBasicImageMetadata without the _avifStats branch: always re-analyses.
getBasicImageMetadata_reanalyse(blob) ==
    [luminanceStats |-> [NoLuminance EXCEPT !.present = TRUE],
     gamutCoverage |-> [NoCoverage EXCEPT !.present = TRUE],
     invoked |-> {"analyze16BitPNG", "analyzeGamutCoverage"}]

\* getBasicImageMetadata(blob): the two statistics it returns and the
\* analysers it invoked.  What an analyser returns is a record of its own.
getBasicImageMetadata(blob) ==
    IF blob.avifStats.present
    THEN [luminanceStats |-> blob.avifStats.luminanceStats,
          gamutCoverage |-> blob.avifStats.gamutCoverage,
          invoked |-> {}]
    ELSE [luminanceStats |-> [NoLuminance EXCEPT !.present = TRUE],
          gamutCoverage |-> IF blob.jxrGamut.present THEN blob.jxrGamut
                            ELSE [NoCoverage EXCEPT !.present = TRUE],
          invoked |-> {"analyze16BitPNG"} \cup
                      (IF blob.jxrGamut.present THEN {} ELSE {"analyzeGamutCoverage"})]

VARIABLES
    av_file,   \* the file given to the importer
    av_out,    \* what convertToAVIF returned
    av_meta,   \* what getBasicImageMetadata returned
    av_pc

av_vars == <<av_file, av_out, av_meta, av_pc>>

NoMetadata == [luminanceStats |-> NoLuminance, gamutCoverage |-> NoCoverage, invoked |-> {}]

av_Init ==
    /\ \E n \in 0..MaxAvifPixels : \E px \in [1..n -> AvifPixels] :
       \E ext \in {".png", ".jxr", ".exr", ".hdr", ".avif", ".gif"} :
       \E bitDepth \in {"16Float", "32Float", "16", "8"} :
       \E decode \in {"ok", "throw"} :
       \E gamut \in BOOLEAN :
          /\ ext # ".jxr" => bitDepth = "8"
          /\ gamut => ext = ".png"
          /\ av_file = [ext |-> ext, bitDepth |-> bitDepth, decode |-> decode,
                        codes |-> Flat(px),
                        avifStats |-> NoStats,
                        jxrGamut |-> IF gamut THEN JxrGamut(Flat(px)) ELSE NoCoverage]
    /\ av_out = ConvertThrown
    /\ av_meta = NoMetadata
    /\ av_pc = "start"

av_Idle ==
    /\ av_file = [ext |-> "", bitDepth |-> "8", decode |-> "ok", codes |-> <<>>,
                  avifStats |-> NoStats, jxrGamut |-> NoCoverage]
    /\ av_out = ConvertThrown
    /\ av_meta = NoMetadata
    /\ av_pc = "idle"

\* processFiles: result = await convertToAVIF(file)
ConvertToAVIF ==
    /\ av_pc = "start"
    /\ av_out' = convertToAVIF(av_file)
    /\ av_pc' = IF convertToAVIF(av_file).returned THEN "converted" ELSE "failed"
    /\ UNCHANGED <<av_file, av_meta>>

\* extractMetadataFromFile(hdrFile) on the file convertToAVIF returned.
MetadataOfConverted ==
    /\ av_pc = "converted"
    /\ av_meta' = getBasicImageMetadata(av_out.hdrFile)
    /\ av_pc' = "described"
    /\ UNCHANGED <<av_file, av_out>>

\* extractMetadataFromFile(file) on a PNG that was not converted (script.js).
MetadataOfNative ==
    /\ av_pc = "start"
    /\ av_file.ext = ".png"
    /\ av_meta' = getBasicImageMetadata(av_file)
    /\ av_pc' = "native"
    /\ UNCHANGED <<av_file, av_out>>

\* C14: every file convertToAVIF returns has _avifStats attached, and
\* getBasicImageMetadata on it returns exactly the attached luminance and
\* gamut statistics without invoking analyze16BitPNG or analyzeGamutCoverage.
C14_AvifStatsReused ==
    /\ av_pc \in {"converted", "described"} =>
          /\ av_out.returned
          /\ av_out.hdrFile.avifStats.present
          /\ av_out.hdrFile.avifStats.luminanceStats = statsFromU12PQ(av_file.codes).luminanceStats
    /\ av_pc = "described" =>
          /\ av_meta.luminanceStats = av_out.hdrFile.avifStats.luminanceStats
          /\ av_meta.gamutCoverage = av_out.hdrFile.avifStats.gamutCoverage
          /\ av_meta.invoked = {}

\* An integer JPEG XR went through the PNG path, came back with statistics
\* attached, and its metadata was read from them.
C14_Witness ==
    /\ av_pc = "described"
    /\ av_file.ext = ".jxr"
    /\ av_file.bitDepth = "16"
    /\ Len(av_file.codes) > 0
    /\ av_meta.luminanceStats.present
    /\ av_meta.gamutCoverage.sourcePrimaries = "BT.2020"

(***************************************************************************)
(* Colour math in exact arithmetic: tone curve, PQ pair, gamut matrices    *)
(*                                                                         *)
(* Here a real number is a fraction <<num, den>> of integers, den > 0.     *)
(* Math.pow with the PQ exponents has no exact form, so a PQ-side value is *)
(* carried by the quantity its pow was taken of: a linear value v is held  *)
(* as Y = (v / 125)^n, and a PQ code as vp = code^(1/m).  pow(., n) then   *)
(* pow(., 1/n), and pow(., m) then pow(., 1/m), cancel exactly; what is    *)
(* left to compute is the rational part of each function, with the         *)
(* constants and clamps of the source.                                     *)
(***************************************************************************)

\* Points per unit of the grids the inputs are drawn from.
ToneGrid == 12
PqGrid == 96

\* a/b <= c/d and a/b = c/d for fractions with positive denominators.
FracLeq(p, q) == p[1] * q[2] <= q[1] * p[2]
FracEq(p, q) == p[1] * q[2] = q[1] * p[2]

\* Ld = _SDR_Y_IN_PQ = pqOetf(1.5), to the nearest point of the tone grid.
ToneLd == (SDR_Y_IN_PQ * ToneGrid + PQ_DEN \div 2) \div PQ_DEN

\* A curve with the sign of a flipped: Y_in * (1 - a*Y_in) / (1 + b*Y_in).
toneCurve_flipped(yIn, lc) ==
    <<yIn * ToneLd * (lc * lc - ToneLd * yIn), lc * lc * (ToneLd + yIn)>>

\* Y_out = Y_in * (1 + a*Y_in) / (1 + bv*Y_in), a = Ld / (Lc*Lc), bv = 1 / Ld.
\* Multiplying numerator and denominator by Lc*Lc*Ld gives
\*     Y_out = Y_in * Ld * (Lc*Lc + Ld*Y_in) / (Lc*Lc * (Ld + Y_in)),
\* and with Y_in, Lc, Ld and Y_out all counted in grid points (yIn, lc,
\* ToneLd) the same expression holds of the counts.
toneCurve(yIn, lc) ==
    <<yIn * ToneLd * (lc * lc + ToneLd * yIn), lc * lc * (ToneLd + yIn)>>

\* _PQ_C1 = 3424/4096 = 107/128, _PQ_C2 = 2413/4096*32 = 2413/128,
\* _PQ_C3 = 2392/4096*32 = 2392/128, as numerators over 128.
PQ_C1 == 107
PQ_C2 == 2413
PQ_C3 == 2392

\* An EOTF whose denominator uses c2 - c2*vp.
PqEotfCore_c2(vp) ==
    LET num == Max(128 * vp[1] - PQ_C1 * vp[2], 0)
        den == PQ_C2 * vp[2] - PQ_C2 * vp[1]
    IN  IF den <= 0 THEN <<num, 0>> ELSE <<num, den>>

\* pqOetf between its two pows: (c1 + c2*ym) / (1 + c3*ym) for ym = Y.
PqOetfCore(ym) ==
    <<PQ_C1 * ym[2] + PQ_C2 * ym[1], 128 * ym[2] + PQ_C3 * ym[1]>>

\* pqEotf between its two pows: max(vp - c1, 0) / max(c2 - c3*vp, 1e-10).
\* The second clamp is reached only for vp >= c2/c3 > 1; the fraction then
\* has denominator 0 here (the source divides by 1e-10).
PqEotfCore(vp) ==
    LET num == Max(128 * vp[1] - PQ_C1 * vp[2], 0)
        den == PQ_C2 * vp[2] - PQ_C3 * vp[1]
    IN  IF den <= 0 THEN <<num, 0>> ELSE <<num, den>>

\* pqOetf(v): 0 when y = 0 (no pow is taken), else the core of ym.
pqOetf(ym) == IF ym[1] <= 0 THEN <<0, 1>> ELSE PqOetfCore(ym)

\* pqEotf(v), v held as vp.
pqEotf(vp) == PqEotfCore(<<Max(vp[1], 0), vp[2]>>)

\* The BT.709-anchored D65 matrices, row-major.  A coefficient is
\* <<hi, lo>> = hi * 1e-8 + lo * 1e-15, both parts carrying its sign.
ConversionMatrices ==
    [ M_709_TO_2020 |->
        << <<62740391, 4928436>>, <<32928302, 8841019>>, <<4331306, 7406416>>,
           <<6909728, 7952900>>, <<91954040, 5273438>>, <<1136231, 5155566>>,
           <<1639143, 9363360>>, <<8801330, 6260109>>, <<89559525, 2513885>> >>,
      M_2020_TO_709 |->
        << <<166049094, 5780000>>, <<-58764109, -4880000>>, <<-7284986, -4670000>>,
           <<-12455046, -6370000>>, <<113289988, 280000>>, <<-834942, -2030000>>,
           <<-1815076, -4270000>>, <<-10057889, -4870000>>, <<111872966, 2270000>> >>,
      M_709_TO_P3 |->
        << <<82246196, 2699890>>, <<17753803, 7300110>>, <<0, 0>>,
           <<3319419, 9204445>>, <<96680581, 5696716>>, <<0, 0>>,
           <<1708263, 1587982>>, <<7239744, 671921>>, <<91051995, 7542419>> >>,
      M_P3_TO_709 |->
        << <<122494018, 5570000>>, <<-22494018, -2220000>>, <<0, 0>>,
           <<-4205695, -4840000>>, <<104205693, 9320000>>, <<0, 0>>,
           <<-1963755, -5300000>>, <<-7863604, -1510000>>, <<109827356, 5250000>> >>,
      M_709_TO_AP1 |->
        << <<61702883, 2435608>>, <<33386760, 9500885>>, <<4910354, 3162346>>,
           <<6992232, 544720>>, <<91734969, 6159363>>, <<1272796, 7463434>>,
           <<2054978, 7208438>>, <<10755202, 9192448>>, <<87189817, 4285889>> >>,
      M_709_TO_AP0 |->
        << <<43393161, 8928909>>, <<37625238, 2993698>>, <<18981596, 8275070>>,
           <<8861839, 262127>>, <<80927532, 9113007>>, <<10210628, 8075447>>,
           <<1775003, 9696693>>, <<10944762, 809078>>, <<87280231, 7142487>> >> ]

\* v . M, the row-vector product of the XMMATRIX convention.
mat3px_rowVector(m, r, g, b) ==
    [ i \in 1..3 |->
        << m[i][1] * r + m[3 + i][1] * g + m[6 + i][1] * b,
           m[i][2] * r + m[3 + i][2] * g + m[6 + i][2] * b >> ]

\* mat3px(m, r, g, b) = M . v for small integer r, g, b: each component as
\* <<sum of the hi parts, sum of the lo parts>>.
mat3px(m, r, g, b) ==
    [ i \in 1..3 |->
        << m[3 * i - 2][1] * r + m[3 * i - 1][1] * g + m[3 * i][1] * b,
           m[3 * i - 2][2] * r + m[3 * i - 1][2] * g + m[3 * i][2] * b >> ]

\* Largest component of the colour vectors the matrices are applied to.
MaxComponent == 1

VARIABLES
    cm_tone,   \* tone curve: Lc, two intensities Y_in <= Y_in', and their Y_out
    cm_pq,     \* PQ pair: the linear value, its PQ code, and the value decoded back
    cm_mat,    \* gamut matrix: its name, the vector (r, g, b) and the product
    cm_pc

cm_vars == <<cm_tone, cm_pq, cm_mat, cm_pc>>

NoTone == [lc |-> 1, y1 |-> 0, y2 |-> 0, out1 |-> <<0, 1>>, out2 |-> <<0, 1>>]
NoPq == [ym |-> <<0, 1>>, code |-> <<0, 1>>, back |-> <<0, 1>>]
NoMat == [name |-> "", v |-> <<0, 0, 0>>, out |-> <<>>]

cm_Init ==
    \/ /\ \E lc \in 1..ToneGrid, y1 \in 0..(2 * ToneGrid - 1) :
          \E y2 \in {y1, y1 + 1, 2 * ToneGrid} :
             cm_tone = [NoTone EXCEPT !.lc = lc, !.y1 = y1, !.y2 = y2]
       /\ cm_pq = NoPq /\ cm_mat = NoMat /\ cm_pc = "tone"
    \/ /\ \E p \in 0..PqGrid : cm_pq = [NoPq EXCEPT !.ym = <<p, PqGrid>>]
       /\ cm_tone = NoTone /\ cm_mat = NoMat /\ cm_pc = "pq"
    \/ /\ \E name \in DOMAIN ConversionMatrices :
          \E r \in 0..MaxComponent, g \in 0..MaxComponent, b \in 0..MaxComponent :
             cm_mat = [NoMat EXCEPT !.name = name, !.v = <<r, g, b>>]
       /\ cm_tone = NoTone /\ cm_pq = NoPq /\ cm_pc = "matrix"

cm_Idle == cm_tone = NoTone /\ cm_pq = NoPq /\ cm_mat = NoMat /\ cm_pc = "idle"

\* tonemapICtCp_global on two intensities of one image (one Lc): Y_in = 0
\* returns black before the curve is evaluated.
ApplyToneCurve ==
    /\ cm_pc = "tone"
    /\ cm_tone' = [cm_tone EXCEPT
                     !.out1 = IF cm_tone.y1 = 0 THEN <<0, 1>>
                              ELSE toneCurve(cm_tone.y1, cm_tone.lc),
                     !.out2 = IF cm_tone.y2 = 0 THEN <<0, 1>>
                              ELSE toneCurve(cm_tone.y2, cm_tone.lc)]
    /\ cm_pc' = "toned"
    /\ UNCHANGED <<cm_pq, cm_mat>>

\* pqEotf(pqOetf(v))
PqRoundTrip ==
    /\ cm_pc = "pq"
    /\ cm_pq' = [cm_pq EXCEPT !.code = pqOetf(cm_pq.ym),
                              !.back = pqEotf(pqOetf(cm_pq.ym))]
    /\ cm_pc' = "decoded"
    /\ UNCHANGED <<cm_tone, cm_mat>>

\* mat3px(M, r, g, b)
TransformColour ==
    /\ cm_pc = "matrix"
    /\ cm_mat' = [cm_mat EXCEPT
                    !.out = mat3px(ConversionMatrices[cm_mat.name],
                                   cm_mat.v[1], cm_mat.v[2], cm_mat.v[3])]
    /\ cm_pc' = "transformed"
    /\ UNCHANGED <<cm_tone, cm_pq>>

\* C16: for every Lc > 0 the tone curve is non-decreasing: of two intensities
\* Y_in <= Y_in' of one image, the second never gets the smaller Y_out.
C16_ToneCurveMonotonic ==
    cm_pc = "toned" => FracLeq(cm_tone.out1, cm_tone.out2)

\* Two different intensities above the content peak were mapped, and the
\* larger one got the strictly larger output.
C16_Witness ==
    /\ cm_pc = "toned"
    /\ cm_tone.lc < cm_tone.y1
    /\ cm_tone.y1 < cm_tone.y2
    /\ ~FracLeq(cm_tone.out2, cm_tone.out1)

\* C17: pqEotf(pqOetf(v)) returns v for every v of (0, 125] (exactly, hence
\* within 1e-6 relative), and 0 for v = 0.
C17_PqRoundTrip ==
    cm_pc = "decoded" =>
        /\ cm_pq.back[2] > 0
        /\ FracEq(cm_pq.back, cm_pq.ym)
        /\ cm_pq.ym[1] = 0 => cm_pq.code[1] = 0 /\ cm_pq.back[1] = 0

\* A value strictly inside (0, 125) went through both functions: its code
\* lies strictly between c1 and 1 before the outer pow.
C17_Witness ==
    /\ cm_pc = "decoded"
    /\ 0 < cm_pq.ym[1] /\ cm_pq.ym[1] < cm_pq.ym[2]
    /\ PQ_C1 * cm_pq.code[2] < 128 * cm_pq.code[1]
    /\ cm_pq.code[1] < cm_pq.code[2]
    /\ cm_pq.back[1] > 0

\* The deviation from 1 of a component <<hi, lo>>, in units of 1e-15,
\* saturating beyond 2e-6.
DeviationFromOne(c) ==
    LET hiDev == c[1] - 100000000
    IN  IF hiDev > 200 THEN 2000000000
        ELSE IF hiDev < -200 THEN -2000000000
        ELSE hiDev * 10000000 + c[2]

\* C18: each row of every BT.709-anchored D65 matrix sums to 1.0 within 1e-6:
\* the product of the matrix with (1, 1, 1) is within 1e-6 of 1 in every
\* component.
C18_RowsSumToOne ==
    (cm_pc = "transformed" /\ cm_mat.v = <<1, 1, 1>>) =>
        \A i \in 1..3 :
            /\ DeviationFromOne(cm_mat.out[i]) <= 1000000000
            /\ DeviationFromOne(cm_mat.out[i]) >= -1000000000

\* White went through BT.2020 -> BT.709, a matrix with negative coefficients
\* whose rows do not sum to exactly 1.
C18_Witness ==
    /\ cm_pc = "transformed"
    /\ cm_mat.name = "M_2020_TO_709"
    /\ cm_mat.v = <<1, 1, 1>>
    /\ DeviationFromOne(cm_mat.out[1]) # 0

(***************************************************************************)
(* HDR thumbnail: buildHdrThumb                                            *)
(*                                                                         *)
(* scale = min(1, maxPx / max(srcW, srcH)) is kept as the fraction         *)
(* maxPx / longest, so srcW * scale and dx / scale are ratios of integers. *)
(* The source forms them in binary floating point, where a ratio that is   *)
(* exactly half-way between two integers can come out on either side of    *)
(* the half; Math.round of such a ratio is therefore either neighbour      *)
(* (tie = 0 down, tie = 1 up, the exact result).                           *)
(***************************************************************************)

\* Largest source side and largest maxPx of the thumbnails built.
MaxThumbSide == 4
MaxThumbPx == 2

\* Math.round(num / den) for num >= 0, den > 0.
RoundRatio(num, den, tie) ==
    LET quot == num \div den
        rest == num % den
    IN  IF 2 * rest > den THEN quot + 1
        ELSE IF 2 * rest = den THEN quot + tie
        ELSE quot

\* A side computed without the floor of 1: Math.round(side * scale).
ThumbSide_noFloor(side, longest, maxPx, tie) ==
    RoundRatio(side * maxPx, longest, tie)

\* dstW, dstH = Math.max(1, Math.round(side * scale)) for scale < 1.
ThumbSide(side, longest, maxPx, tie) ==
    Max(1, RoundRatio(side * maxPx, longest, tie))

\* buildHdrThumb(hdrBuf, srcW, srcH, cicp, maxPx): the bytes of the Blob.
buildHdrThumb(hdrBuf, srcW, srcH, cicp, maxPx, tie) ==
    LET longest == Max(srcW, srcH)
        dstW == ThumbSide(srcW, longest, maxPx, tie)
        dstH == ThumbSide(srcH, longest, maxPx, tie)
        srcBytesPerPx == 8
        \* sampleSrc(dx / scale, dy / scale, ch)
        sampleSrc(dx, dy, chan) ==
            LET sx == Min(Max(RoundRatio(dx * longest, maxPx, tie), 0), srcW - 1)
                sy == Min(Max(RoundRatio(dy * longest, maxPx, tie), 0), srcH - 1)
                srcBase == (sy * srcW + sx) * srcBytesPerPx + chan * 2
            IN  (B(hdrBuf, srcBase) + 256 * B(hdrBuf, srcBase + 1)) % 65536
        dstBuf == [j \in 1..(dstW * dstH * srcBytesPerPx) |->
                     LET di == (j - 1) \div srcBytesPerPx
                         ch == ((j - 1) % srcBytesPerPx) \div 2
                         sample == sampleSrc(di % dstW, di \div dstW, ch)
                     IN  IF (j - 1) % 2 = 0 THEN sample % 256 ELSE (sample \div 256) % 256]
    IN  IF maxPx >= longest
        THEN buildPNG16(hdrBuf, srcW, srcH, 8, cicp)
        ELSE buildPNG16(dstBuf, dstW, dstH, srcBytesPerPx, cicp)

VARIABLES
    th_in,     \* arguments of buildHdrThumb: hdrBuf, srcW, srcH, cicp, maxPx
    th_tie,    \* which way a half-way ratio is rounded in this call
    th_blob,   \* bytes of the Blob returned
    th_pc

th_vars == <<th_in, th_tie, th_blob, th_pc>>

\* Source pixel q (0-based) of the thumbnail inputs: every pixel is different
\* from every other in each of its four samples.
ThumbPixel(q) == <<q + 1, 256 * (q + 1), 4660 + q, 65535 - q>>

RECURSIVE ThumbSource(_)
ThumbSource(n) ==
    IF n = 0 THEN <<>> ELSE ThumbSource(n - 1) \o PixelBytes(ThumbPixel(n - 1), 8)

th_Init ==
    /\ \E w \in 1..MaxThumbSide, h \in 1..MaxThumbSide, maxPx \in 1..MaxThumbPx,
          cicp \in CicpTags \ {CicpNull} :
            th_in = [hdrBuf |-> ThumbSource(w * h), srcW |-> w, srcH |-> h,
                     cicp |-> cicp, maxPx |-> maxPx]
    /\ th_tie \in {0, 1}
    /\ th_blob = <<>>
    /\ th_pc = "start"

th_Idle ==
    /\ th_in = [hdrBuf |-> <<>>, srcW |-> 0, srcH |-> 0, cicp |-> CicpNull, maxPx |-> 0]
    /\ th_tie = 1
    /\ th_blob = <<>>
    /\ th_pc = "idle"

BuildHdrThumb ==
    /\ th_pc = "start"
    /\ th_blob' = buildHdrThumb(th_in.hdrBuf, th_in.srcW, th_in.srcH, th_in.cicp,
                                th_in.maxPx, th_tie)
    /\ th_pc' = "built"
    /\ UNCHANGED <<th_in, th_tie>>

\* The four samples of pixel q (0-based) of a buffer read by rd (SampleLE for
\* a source buffer, SampleBE for decoded PNG data).
ThumbSamples(rd(_, _), buf, q) == [c \in 0..3 |-> rd(buf, 4 * q + c)]

\* C20: for srcW, srcH >= 1 and maxPx >= 1 buildHdrThumb returns a 16-bit PNG
\* whose width and height are both in 1..maxPx; when max(srcW, srcH) <= maxPx
\* the dimensions and pixels are those of the source; otherwise every output
\* pixel is a copy of one in-bounds source pixel; and the PNG carries the
\* cICP tag that was passed in.
C20_ThumbBounded ==
    th_pc = "built" =>
        LET thumb == decodePixelBuffer(th_blob)
            srcCount == th_in.srcW * th_in.srcH
        IN  /\ thumb.kind = "ok"
            /\ PngBitDepth(th_blob) = 16
            /\ thumb.width \in 1..th_in.maxPx
            /\ thumb.height \in 1..th_in.maxPx
            /\ Len(thumb.pixels) = thumb.width * thumb.height * 8
            /\ PngCicp(th_blob, 8) = th_in.cicp
            /\ IF Max(th_in.srcW, th_in.srcH) <= th_in.maxPx
               THEN /\ thumb.width = th_in.srcW
                    /\ thumb.height = th_in.srcH
                    /\ \A q \in 0..(srcCount - 1) :
                          ThumbSamples(SampleBE, thumb.pixels, q) = ThumbSamples(SampleLE, th_in.hdrBuf, q)
               ELSE \A p \in 0..(thumb.width * thumb.height - 1) :
                       \E q \in 0..(srcCount - 1) :
                          ThumbSamples(SampleBE, thumb.pixels, p) = ThumbSamples(SampleLE, th_in.hdrBuf, q)

\* A 3x2 source was reduced for maxPx = 2 to 2x1, and the second output pixel
\* is the third pixel of the first source row.
C20_Witness ==
    /\ th_pc = "built"
    /\ th_in.srcW = 3 /\ th_in.srcH = 2 /\ th_in.maxPx = 2 /\ th_tie = 1
    /\ decodePixelBuffer(th_blob).width = 2
    /\ decodePixelBuffer(th_blob).height = 1
    /\ ThumbSamples(SampleBE, decodePixelBuffer(th_blob).pixels, 1) =
           ThumbSamples(SampleLE, th_in.hdrBuf, 2)
    /\ PngCicp(th_blob, 8) = th_in.cicp

(***************************************************************************)
(* Conversion orchestrators: the order of the stages                       *)
(*                                                                         *)
(* A stage is entered where the orchestrator calls the decoder (codec      *)
(* decode, _decodeRGBE, _decodeEXR, ImageMagick.read, pixel-worker), runs  *)
(* the histogram loop, runs the per-pixel loop, or calls an encoder        *)
(* (buildPNG16 / _encodeToAVIF for the HDR file, buildPNG8 / convertToSDR  *)
(* for the SDR file, buildHdrThumb / generateThumb for the thumbnail).     *)
(* Every call is awaited, so a function's stages are the calls of its body *)
(* in program order, and a delegated conversion contributes its own.       *)
(***************************************************************************)
StageOrder == <<"Decode", "EstimatePeak", "PerPixel", "EncodeHDR", "EncodeSDR", "EncodeThumb">>
StageRank(stage) == CHOOSE rank \in 1..Len(StageOrder) : StageOrder[rank] = stage

JxrDepths == {"16Float", "32Float", "16", "8"}
JxrFloatDepths == {"16Float", "32Float"}

\* A float pipeline that builds the thumbnail before the SDR file.
Stages_thumbBeforeSdr == <<"EstimatePeak", "PerPixel", "EncodeHDR", "EncodeThumb", "EncodeSDR">>

\* _floatsToAVIF: histogram, per-pixel loop, _encodeToAVIF, buildPNG8, buildHdrThumb
Stages_floatsToAVIF == <<"EstimatePeak", "PerPixel", "EncodeHDR", "EncodeSDR", "EncodeThumb">>

\* convertJxrToPNG: codec.decode, then the float pipeline or the pass-through
Stages_convertJxrToPNG(depth) ==
    IF depth \in JxrFloatDepths
    THEN <<"Decode", "EstimatePeak", "PerPixel", "EncodeHDR", "EncodeSDR", "EncodeThumb">>
    ELSE <<"Decode", "EncodeHDR">>

Stages_convertHdrExrToPNG ==
    <<"Decode", "EstimatePeak", "PerPixel", "EncodeHDR", "EncodeSDR", "EncodeThumb">>

\* convertToPNG: .jxr, .hdr and .exr are forwarded; everything else is read by
\* ImageMagick, written with buildPNG16 and, for a PQ-tagged AVIF, tone-mapped
Stages_convertToPNG(ext, depth, pq) ==
    IF ext = "jxr" THEN Stages_convertJxrToPNG(depth)
    ELSE IF ext \in {"hdr", "exr"} THEN Stages_convertHdrExrToPNG
    ELSE <<"Decode", "EncodeHDR">> \o (IF ext = "avif" /\ pq THEN <<"EncodeSDR">> ELSE <<>>)

\* convertToAVIF on a .png: pixel-worker, 16 -> 12 bit loop, _encodeToAVIF,
\* convertToSDR, generateThumb
Stages_pngToAVIF == <<"Decode", "PerPixel", "EncodeHDR", "EncodeSDR", "EncodeThumb">>

Stages_convertToAVIF(ext, depth, pq) ==
    CASE ext = "png" -> Stages_pngToAVIF
      [] ext = "jxr" ->
            IF depth \in JxrFloatDepths
            THEN <<"Decode">> \o Stages_floatsToAVIF
            ELSE <<"Decode">> \o Stages_convertJxrToPNG(depth) \o Stages_pngToAVIF
      [] ext \in {"hdr", "exr"} -> <<"Decode">> \o Stages_floatsToAVIF
      [] ext = "avif" -> Stages_convertToPNG("avif", depth, pq) \o Stages_pngToAVIF

ConversionCalls ==
    {[fn |-> "convertJxrToPNG", ext |-> "jxr", depth |-> d, pq |-> FALSE] : d \in JxrDepths}
    \cup {[fn |-> "convertHdrExrToPNG", ext |-> e, depth |-> "32Float", pq |-> FALSE] : e \in {"hdr", "exr"}}
    \cup {[fn |-> f, ext |-> "jxr", depth |-> d, pq |-> FALSE] :
             f \in {"convertToPNG", "convertToAVIF"}, d \in JxrDepths}
    \cup {[fn |-> f, ext |-> e, depth |-> "32Float", pq |-> FALSE] :
             f \in {"convertToPNG", "convertToAVIF"}, e \in {"hdr", "exr"}}
    \cup {[fn |-> f, ext |-> e, depth |-> "16", pq |-> p] :
             f \in {"convertToPNG", "convertToAVIF"}, e \in {"png", "avif"}, p \in BOOLEAN}

StagesOfCall(call) ==
    CASE call.fn = "convertJxrToPNG" -> Stages_convertJxrToPNG(call.depth)
      [] call.fn = "convertHdrExrToPNG" -> Stages_convertHdrExrToPNG
      [] call.fn = "convertToPNG" -> Stages_convertToPNG(call.ext, call.depth, call.pq)
      [] call.fn = "convertToAVIF" -> Stages_convertToAVIF(call.ext, call.depth, call.pq)

\* convertToAVIF hands an .avif and an integer .jxr to a PNG conversion first
Delegates(call) ==
    /\ call.fn = "convertToAVIF"
    /\ \/ call.ext = "avif"
       \/ call.ext = "jxr" /\ call.depth \notin JxrFloatDepths

VARIABLES
    sg_call,      \* the conversion that was called
    sg_todo,      \* the stages its code still has to enter
    sg_trace,     \* the stages entered so far, in order
    sg_res,       \* "idle" | "pending" | "returned" | "thrown"
    sg_out        \* what the caller receives: "none" | "files"

sg_vars == <<sg_call, sg_todo, sg_trace, sg_res, sg_out>>

NoCall == [fn |-> "", ext |-> "", depth |-> "", pq |-> FALSE]

sg_Init ==
    /\ sg_call \in ConversionCalls
    /\ sg_todo = StagesOfCall(sg_call)
    /\ sg_trace = <<>>
    /\ sg_res = "pending"
    /\ sg_out = "none"

sg_Idle ==
    /\ sg_call = NoCall
    /\ sg_todo = <<>>
    /\ sg_trace = <<>>
    /\ sg_res = "idle"
    /\ sg_out = "none"

EnterStage(stage) ==
    /\ sg_res = "pending"
    /\ sg_todo # <<>>
    /\ Head(sg_todo) = stage
    /\ sg_trace' = Append(sg_trace, stage)
    /\ sg_todo' = Tail(sg_todo)
    /\ UNCHANGED <<sg_call, sg_res, sg_out>>

StageDecode == EnterStage("Decode")
StageEstimatePeak == EnterStage("EstimatePeak")
StagePerPixel == EnterStage("PerPixel")
StageEncodeHDR == EnterStage("EncodeHDR")
StageEncodeSDR == EnterStage("EncodeSDR")
StageEncodeThumb == EnterStage("EncodeThumb")

\* The stage that is running throws (or its promise rejects): nothing catches
\* it, so the conversion's promise rejects and the remaining stages never run.
StageThrows ==
    /\ sg_res = "pending"
    /\ sg_trace # <<>>
    /\ sg_res' = "thrown"
    /\ sg_todo' = <<>>
    /\ UNCHANGED <<sg_call, sg_trace, sg_out>>

\* return { hdrFile, sdrBlob, thumbBlob }
ConversionReturns ==
    /\ sg_res = "pending"
    /\ sg_todo = <<>>
    /\ sg_res' = "returned"
    /\ sg_out' = "files"
    /\ UNCHANGED <<sg_call, sg_todo, sg_trace>>

\* The positions of the trace where the stage entered is not a later one than
\* the stage before it.
Restarts(trace) ==
    {k \in 2..Len(trace) : StageRank(trace[k]) <= StageRank(trace[k - 1])}

MaxRleWidth == 2

\* The scanline test of _decodeRGBE at position ypos.
RleMarker(d, ypos, width) ==
    /\ ypos + 4 <= Len(d)
    /\ At(d, ypos) = 2 /\ At(d, ypos + 1) = 2
    /\ 256 * At(d, ypos + 2) + At(d, ypos + 3) = width

\* Where the codes of channel ch begin: after the marker and the codes the
\* channels before it consumed.
RECURSIVE ChannelStart(_, _, _)
ChannelStart(d, ch, width) ==
    IF ch = 0 THEN 4
    ELSE RleChannel(d, ChannelStart(d, ch - 1, width),
                    [j \in 1..(4 * width) |-> 0], ch - 1, 0, width).pos

\* The indices ch * width + x++ at which the loop of channel ch stores, in
\* the order of the stores (whether or not the index is inside the array).
RECURSIVE RleStores(_, _, _, _, _)
RleStores(d, rpos, ch, x, width) ==
    IF ~(x < width) THEN <<>>
    ELSE LET stCode == At(d, rpos)
             stCount == IF stCode > 128 THEN stCode - 128 ELSE stCode
         IN  IF stCode = Undef THEN <<>>
             ELSE [j \in 1..stCount |-> ch * width + x + j - 1]
                  \o RleStores(d, IF stCode > 128 THEN rpos + 2 ELSE rpos + 1 + stCode,
                               ch, x + stCount, width)

\* The codes of one channel plane, written in one of several ways.
SegmentKinds == {"plain", "lit", "split", "zero", "lit128", "overrun", "overlit"}
Segment(kind, plane) ==
    LET sw == Len(plane)
    IN  CASE kind = "plain" ->
                IF \A x \in 1..sw : plane[x] = plane[1]
                THEN <<128 + sw, plane[1]>> ELSE <<sw>> \o plane
          [] kind = "lit" -> <<sw>> \o plane
          [] kind = "split" ->
                <<1, plane[1]>> \o (IF sw > 1 THEN <<128 + (sw - 1), plane[sw]>> ELSE <<>>)
          [] kind = "zero" -> <<0, sw>> \o plane
          [] kind = "lit128" -> <<128>> \o plane \o [j \in 1..(128 - sw) |-> 7]
          [] kind = "overrun" -> <<128 + sw + 1, plane[1]>>
          [] kind = "overlit" -> <<sw + 1>> \o plane \o <<7>>

VARIABLES
    rl_in,        \* width, the scanline's bytes and how they were written
    rl_out,       \* what the decoder made of them
    rl_pc         \* "idle" | "start" | "decoded"

rl_vars == <<rl_in, rl_out, rl_pc>>

NoScanline == [kind |-> "", floats |-> <<>>, rle |-> FALSE, scan |-> <<>>, pos |-> 0, stores |-> <<>>]

rl_Init ==
    /\ \E w \in 1..MaxRleWidth, first \in RgbeFirstQuads, fill \in RgbeQuads :
         LET rlQuads == PixelsOf(first, fill, w)
         IN  \/ \E special \in 0..3, kind \in SegmentKinds :
                  LET rlSegs == [c \in 1..4 |->
                                   Segment(IF c = special + 1 THEN kind ELSE "plain",
                                           [x \in 1..w |-> rlQuads[x][c]])]
                  IN  rl_in = [width |-> w, form |-> "rle", segs |-> rlSegs,
                               data |-> <<2, 2, w \div 256, w % 256>> \o Flat(rlSegs)]
             \* flat quads, and quads behind a marker that names another width
             \/ \E lead \in {<<>>, <<2, 2, 0, w + 1>>} :
                  /\ Len(lead) \div 4 < w \/ lead = <<>>
                  /\ rl_in = [width |-> w, form |-> "flat", segs |-> <<>>,
                              data |-> lead \o Flat(SubSeq(rlQuads, 1, w - Len(lead) \div 4))]
    /\ rl_out = NoScanline
    /\ rl_pc = "start"

rl_Idle ==
    /\ rl_in = [width |-> 0, form |-> "", segs |-> <<>>, data |-> <<>>]
    /\ rl_out = NoScanline
    /\ rl_pc = "idle"

\* One pass of the loop over y in _decodeRGBE on a picture of height 1.
DecodeScanline ==
    /\ rl_pc = "start"
    /\ LET rlRows == RgbeRows(rl_in.data, 0, 0, rl_in.width, 1, <<>>)
           rlMarked == RleMarker(rl_in.data, 0, rl_in.width)
           rlLine == RleScanline(rl_in.data, 4, [j \in 1..(4 * rl_in.width) |-> 0], 0, rl_in.width)
       IN  rl_out' = [kind |-> rlRows.kind, floats |-> rlRows.floats, rle |-> rlMarked,
                      scan |-> IF rlMarked THEN rlLine.scan ELSE <<>>,
                      pos |-> IF rlMarked THEN rlLine.pos ELSE 4 * rl_in.width,
                      stores |-> IF rlMarked
                                 THEN [c \in 1..4 |->
                                         RleStores(rl_in.data,
                                                   ChannelStart(rl_in.data, c - 1, rl_in.width),
                                                   c - 1, 0, rl_in.width)]
                                 ELSE <<>>]
    /\ rl_pc' = "decoded"
    /\ UNCHANGED rl_in

\* What a sequence of codes stands for: a code c > 128 repeats the next byte
\* c - 128 times, a code c <= 128 is followed by c literal bytes.
RECURSIVE ExpandCodes(_)
ExpandCodes(seg) ==
    IF seg = <<>> THEN <<>>
    ELSE IF Head(seg) > 128
    THEN [j \in 1..(Head(seg) - 128) |-> seg[2]] \o ExpandCodes(SubSeq(seg, 3, Len(seg)))
    ELSE SubSeq(seg, 2, Head(seg) + 1) \o ExpandCodes(SubSeq(seg, Head(seg) + 2, Len(seg)))

\* C23: a scanline behind the marker 2, 2, width (big-endian) is decoded into
\* four planes of width bytes each, plane ch holding the first width bytes of
\* what the codes of channel ch expand to (c > 128: the next byte c - 128
\* times; c <= 128: the next c bytes), all codes are consumed, and pixel x is
\* made of the x-th byte of each plane; a scanline without that marker is read
\* as width flat RGBE quads.
C23_ScanlineExpansion ==
    rl_pc = "decoded" =>
        /\ rl_out.kind = "ok"
        /\ rl_out.rle = (rl_in.form = "rle")
        /\ rl_out.rle =>
              /\ Len(rl_out.scan) = 4 * rl_in.width
              /\ \A c \in 1..4 :
                    SubSeq(rl_out.scan, (c - 1) * rl_in.width + 1, c * rl_in.width)
                       = SubSeq(ExpandCodes(rl_in.segs[c]), 1, rl_in.width)
              /\ rl_out.pos = Len(rl_in.data)
              /\ rl_out.floats =
                    Flat([x \in 1..rl_in.width |->
                            rgbeToFloat(ExpandCodes(rl_in.segs[1])[x], ExpandCodes(rl_in.segs[2])[x],
                                        ExpandCodes(rl_in.segs[3])[x], ExpandCodes(rl_in.segs[4])[x])])
        /\ ~rl_out.rle =>
              rl_out.floats =
                 Flat([x \in 1..rl_in.width |->
                         rgbeToFloat(At(rl_in.data, 4 * x - 4), At(rl_in.data, 4 * x - 3),
                                     At(rl_in.data, 4 * x - 2), At(rl_in.data, 4 * x - 1))])

C23_Witness ==
    /\ rl_pc = "decoded"
    /\ rl_in.data = <<2, 2, 0, 2, 1, 4, 129, 250, 2, 4, 250, 2, 4, 250, 2, 134, 136>>
    /\ rl_out.scan = <<4, 250, 4, 250, 4, 250, 134, 136>>
    /\ rl_out.floats = <<4, 4, 4, 1000, 1000, 1000>>

\* C26: while one channel plane of an RLE scanline is decoded, exactly width
\* bytes are stored for it, all at indices of that plane,
\* [ch * width, (ch + 1) * width).
C26_StoresInsidePlane ==
    (rl_pc = "decoded" /\ rl_out.rle) =>
        \A c \in 1..4 :
            /\ Len(rl_out.stores[c]) = rl_in.width
            /\ \A j \in 1..Len(rl_out.stores[c]) :
                  /\ rl_out.stores[c][j] >= (c - 1) * rl_in.width
                  /\ rl_out.stores[c][j] < c * rl_in.width

(***************************************************************************)
(* The tone-map worker: _tonemapOnWorker and tonemap-worker.js             *)
(***************************************************************************)
MaxCalls == 2
PixelBuffers == {"pixelsA", "pixelsB"}

\* tonemapPQToSDR(e.data): the SDR buffer made of the request's pixels; it
\* throws on a request it cannot allocate a buffer for.
tonemapPQToSDR(req) ==
    IF req.valid THEN [threw |-> FALSE, sdrBuf |-> <<"sdr of", req.pixels>>, message |-> ""]
    ELSE [threw |-> TRUE, sdrBuf |-> <<>>, message |-> "Invalid typed array length"]

\* Mutant: every call posts to the worker made by the first call.
NewWorker_shared(next) == 1

\* new Worker('./tonemap-worker.js'): the next worker that did not exist before
NewWorker(next) == next

NoCallState == [st |-> "idle", pixels |-> "", valid |-> FALSE, worker |-> 0, value |-> <<>>, settles |-> 0]
NoWorker == [st |-> "none", inbox |-> <<>>, outbox |-> <<>>, sent |-> 0, handled |-> 0]

VARIABLES
    wk_calls,     \* per call: its promise (st, value), its arguments, its worker
    wk_workers,   \* per worker: running or terminated, the messages in flight
    wk_next       \* how many workers were made so far, plus one

wk_vars == <<wk_calls, wk_workers, wk_next>>

wk_Init ==
    /\ wk_calls = [i \in 1..MaxCalls |-> NoCallState]
    /\ wk_workers = [id \in 1..MaxCalls |-> NoWorker]
    /\ wk_next = 1

wk_Idle ==
    /\ wk_calls = <<>>
    /\ wk_workers = <<>>
    /\ wk_next = 0

\* _tonemapOnWorker(pixels, ...): the promise executor makes a worker, sets
\* its handlers and posts the request.
TonemapOnWorker(i) ==
    /\ wk_next >= 1
    /\ wk_calls[i].st = "idle"
    /\ wk_next <= MaxCalls
    /\ \E px \in PixelBuffers, ok \in BOOLEAN :
         LET id == NewWorker(wk_next)
         IN  /\ wk_calls' = [wk_calls EXCEPT ![i] =
                   [st |-> "pending", pixels |-> px, valid |-> ok, worker |-> id,
                    value |-> <<>>, settles |-> 0]]
             /\ wk_workers' = [wk_workers EXCEPT ![id] =
                   [st |-> "running", inbox |-> <<[pixels |-> px, valid |-> ok]>>,
                    outbox |-> <<>>, sent |-> 0, handled |-> 0]]
    /\ wk_next' = wk_next + 1

\* self.onmessage in the worker: one postMessage, of the result or of the error.
WorkerOnMessage(id) ==
    /\ wk_workers[id].st = "running"
    /\ wk_workers[id].inbox # <<>>
    /\ LET result == tonemapPQToSDR(Head(wk_workers[id].inbox))
           reply == IF result.threw THEN [error |-> result.message, sdrBuf |-> <<>>]
                    ELSE [error |-> "", sdrBuf |-> result.sdrBuf]
       IN  wk_workers' = [wk_workers EXCEPT ![id] =
               [@ EXCEPT !.inbox = Tail(@), !.outbox = Append(@, reply),
                         !.sent = @ + 1, !.handled = @ + 1]]
    /\ UNCHANGED <<wk_calls, wk_next>>

\* worker.onmessage on the main thread: terminate, then reject or resolve.
MainOnMessage(i) ==
    /\ wk_calls[i].st # "idle"
    /\ LET id == wk_calls[i].worker
           msg == Head(wk_workers[id].outbox)
       IN  /\ wk_workers[id].st = "running"
           /\ wk_workers[id].outbox # <<>>
           /\ wk_workers' = [wk_workers EXCEPT ![id] =
                 [@ EXCEPT !.st = "terminated", !.outbox = Tail(@)]]
           /\ wk_calls' = [wk_calls EXCEPT ![i] =
                 IF @.st # "pending" THEN [@ EXCEPT !.settles = @ + 1]
                 ELSE IF msg.error # ""
                 THEN [@ EXCEPT !.st = "rejected", !.value = msg.error, !.settles = @ + 1]
                 ELSE [@ EXCEPT !.st = "resolved", !.value = msg.sdrBuf, !.settles = @ + 1]]
    /\ UNCHANGED wk_next

\* worker.onerror: the worker script could not be started, so the request
\* is never handled; terminate and reject.
MainOnError(i) ==
    /\ wk_calls[i].st # "idle"
    /\ LET id == wk_calls[i].worker
       IN  /\ wk_workers[id].st = "running"
           /\ wk_workers[id].handled = 0
           /\ wk_workers' = [wk_workers EXCEPT ![id] = [@ EXCEPT !.st = "terminated"]]
           /\ wk_calls' = [wk_calls EXCEPT ![i] =
                 IF @.st # "pending" THEN [@ EXCEPT !.settles = @ + 1]
                 ELSE [@ EXCEPT !.st = "rejected", !.value = "worker error event",
                                !.settles = @ + 1]]
    /\ UNCHANGED wk_next

StartCall == \E i \in 1..MaxCalls : TonemapOnWorker(i)
WorkerStep == \E id \in 1..MaxCalls : WorkerOnMessage(id)
MessageEvent == \E i \in 1..MaxCalls : MainOnMessage(i)
ErrorEvent == \E i \in 1..MaxCalls : MainOnError(i)

Called == {i \in DOMAIN wk_calls : wk_calls[i].st # "idle"}

\* C25: under every interleaving of the calls, each call has a worker no
\* other call has; its promise is settled at most once, and once settled it
\* is resolved with the SDR buffer made of that call's pixels or rejected
\* with the error the worker reported; the worker is terminated exactly when
\* the promise is settled; a worker sends one reply for the request it
\* handles and never more than one, and a promise settled by a reply has
\* seen exactly one.
C25_WorkerPerCall ==
    /\ \A i \in Called, j \in Called : i # j => wk_calls[i].worker # wk_calls[j].worker
    /\ \A i \in Called :
          LET call == wk_calls[i]
              worker == wk_workers[call.worker]
          IN  /\ call.settles <= 1
              /\ (call.st = "pending") = (call.settles = 0)
              /\ (call.st = "pending") = (worker.st = "running")
              /\ call.st # "pending" => worker.st = "terminated"
              /\ call.st = "resolved" =>
                    /\ call.valid
                    /\ call.value = <<"sdr of", call.pixels>>
                    /\ worker.sent = 1
              /\ call.st = "rejected" =>
                    \/ ~call.valid /\ call.value = "Invalid typed array length" /\ worker.sent = 1
                    \/ call.value = "worker error event" /\ worker.sent = 0
              /\ worker.sent = worker.handled
              /\ worker.sent <= 1
              /\ worker.sent + Len(worker.inbox) = 1

\* Two calls in flight at once, the second one's reply handled first.
C25_Witness ==
    /\ Called = {1, 2}
    /\ wk_calls[1].worker # wk_calls[2].worker
    /\ wk_calls[1].st = "pending" /\ wk_calls[1].pixels = "pixelsA"
    /\ wk_workers[wk_calls[1].worker].sent = 1
    /\ wk_calls[2].st = "resolved" /\ wk_calls[2].value = <<"sdr of", "pixelsB">>
    /\ wk_workers[wk_calls[2].worker].st = "terminated"

(***************************************************************************)
(* Lazy loaders: getMagick and getJpegXrCodec                              *)
(*                                                                         *)
(* The page runs one thread: a call runs without interruption up to its    *)
(* first await, so the calls interleave only with the events of the        *)
(* loading (script loaded or failed, initialiser done or failed) and with  *)
(* the delivery of the promise to each caller.                             *)
(***************************************************************************)
MaxCallers == 3

\* Mutant: a call starts the loading whenever the library is not ready yet.
StartsLoading_whileNotReady(ready, loading) == ~ready

\* Neither `if (magickReady) return ...` nor `if (magickLoading) return
\* magickLoading` (`_jpegxrCodec`, `_jpegxrLoading`) is taken.
StartsLoading(ready, loading) == ~ready /\ loading = "null"

VARIABLES
    ld_lib,       \* "magick" | "jpegxr", and whether window.jpegxr is defined already
    ld_ready,     \* magickReady, or _jpegxrCodec being set
    ld_loading,   \* magickLoading / _jpegxrLoading: "null" | "pending" | "fulfilled" | "rejected"
    ld_stage,     \* where the loading is: "" | "script" | "wasmUrl" | "init" | "done" | "failed"
    ld_value,     \* the instance the initialiser made (its number), or the failure
    ld_count,     \* how often the script was injected and the initialiser invoked
    ld_callers    \* per caller: "idle" | "waiting" | "got" | "failed", and what it received

ld_vars == <<ld_lib, ld_ready, ld_loading, ld_stage, ld_value, ld_count, ld_callers>>

NoCaller == [st |-> "idle", value |-> ""]

ld_Init ==
    /\ ld_lib \in {[name |-> "magick", defined |-> FALSE],
                   [name |-> "jpegxr", defined |-> FALSE],
                   [name |-> "jpegxr", defined |-> TRUE]}
    /\ ld_ready = FALSE
    /\ ld_loading = "null"
    /\ ld_stage = ""
    /\ ld_value = ""
    /\ ld_count = [injected |-> 0, inits |-> 0]
    /\ ld_callers = [c \in 1..MaxCallers |-> NoCaller]

ld_Idle ==
    /\ ld_lib = [name |-> "", defined |-> FALSE]
    /\ ld_ready = FALSE
    /\ ld_loading = "null"
    /\ ld_stage = ""
    /\ ld_value = ""
    /\ ld_count = [injected |-> 0, inits |-> 0]
    /\ ld_callers = <<>>

\* getMagick() / getJpegXrCodec() up to its first await.
GetInstance(c) ==
    /\ ld_lib.name # ""
    /\ ld_callers[c].st = "idle"
    /\ IF ld_ready
       THEN /\ ld_callers' = [ld_callers EXCEPT ![c] = [st |-> "got", value |-> ld_value]]
            /\ UNCHANGED <<ld_loading, ld_stage, ld_count>>
       ELSE IF StartsLoading(ld_ready, ld_loading)
       THEN /\ ld_callers' = [ld_callers EXCEPT ![c] = [st |-> "waiting", value |-> ""]]
            /\ ld_loading' = "pending"
            \* window.jpegxr exists: no script, the initialiser is invoked at once
            /\ IF ld_lib.defined
               THEN /\ ld_stage' = "init"
                    /\ ld_count' = [ld_count EXCEPT !.inits = @ + 1]
               ELSE /\ ld_stage' = "script"
                    /\ ld_count' = [ld_count EXCEPT !.injected = @ + 1]
       ELSE /\ ld_callers' = [ld_callers EXCEPT ![c] = [st |-> "waiting", value |-> ""]]
            /\ UNCHANGED <<ld_loading, ld_stage, ld_count>>
    /\ UNCHANGED <<ld_lib, ld_ready, ld_value>>

\* script.onload: getJpegXrCodec invokes the initialiser, getMagick first
\* awaits _getMagickWasmUrl().
ScriptLoaded ==
    /\ ld_stage = "script"
    /\ IF ld_lib.name = "magick"
       THEN ld_stage' = "wasmUrl" /\ UNCHANGED ld_count
       ELSE ld_stage' = "init" /\ ld_count' = [ld_count EXCEPT !.inits = @ + 1]
    /\ UNCHANGED <<ld_lib, ld_ready, ld_loading, ld_value, ld_callers>>

\* _getMagickWasmUrl() returned: initializeImageMagick(wasmUrl) is invoked.
WasmUrlReady ==
    /\ ld_stage = "wasmUrl"
    /\ ld_stage' = "init"
    /\ ld_count' = [ld_count EXCEPT !.inits = @ + 1]
    /\ UNCHANGED <<ld_lib, ld_ready, ld_loading, ld_value, ld_callers>>

\* _getMagickWasmUrl() threw (response.blob() failed).
WasmUrlFailed ==
    /\ ld_stage = "wasmUrl"
    /\ ld_stage' = "failed"
    /\ ld_loading' = "rejected"
    /\ ld_value' = "wasm url failed"
    /\ UNCHANGED <<ld_lib, ld_ready, ld_count, ld_callers>>

\* script.onerror: the loading promise rejects and stays rejected.
ScriptFailed ==
    /\ ld_stage = "script"
    /\ ld_stage' = "failed"
    /\ ld_loading' = "rejected"
    /\ ld_value' = "Failed to load script"
    /\ UNCHANGED <<ld_lib, ld_ready, ld_count, ld_callers>>

\* The initialiser's promise resolves: the instance is stored.
InitDone ==
    /\ ld_stage = "init"
    /\ ld_stage' = "done"
    /\ ld_ready' = TRUE
    /\ ld_loading' = "fulfilled"
    /\ ld_value' = <<"instance", ld_count.inits>>
    /\ UNCHANGED <<ld_lib, ld_count, ld_callers>>

\* The initialiser's promise rejects.
InitFailed ==
    /\ ld_stage = "init"
    /\ ld_stage' = "failed"
    /\ ld_loading' = "rejected"
    /\ ld_value' = <<"init failed", ld_count.inits>>
    /\ UNCHANGED <<ld_lib, ld_ready, ld_count, ld_callers>>

\* The promise a caller awaits has settled: the caller goes on with its value.
Receive(c) ==
    /\ ld_lib.name # ""
    /\ ld_callers[c].st = "waiting"
    /\ ld_loading \in {"fulfilled", "rejected"}
    /\ ld_callers' = [ld_callers EXCEPT ![c] =
          [st |-> IF ld_loading = "fulfilled" THEN "got" ELSE "failed", value |-> ld_value]]
    /\ UNCHANGED <<ld_lib, ld_ready, ld_loading, ld_stage, ld_value, ld_count>>

CallLoader == \E c \in 1..MaxCallers : GetInstance(c)
CallerReceives == \E c \in 1..MaxCallers : Receive(c)

Served == {c \in DOMAIN ld_callers : ld_callers[c].st \in {"got", "failed"}}

\* C28: under every interleaving of the calls to getMagick (getJpegXrCodec)
\* with the events of the loading, the loader script is injected at most once
\* and the initialiser is invoked at most once, and all callers that were served
\* received the same thing: the one instance, or the one failure.
C28_LoadedOnce ==
    /\ ld_count.injected <= 1
    /\ ld_count.inits <= 1
    /\ \A c \in Served, d \in Served :
          /\ ld_callers[c].st = ld_callers[d].st
          /\ ld_callers[c].value = ld_callers[d].value
    /\ \A c \in Served :
          ld_callers[c].st = "got" => ld_callers[c].value = <<"instance", 1>>

\* Three callers of getMagick, two of them before the library was ready and
\* one after, all served with the one instance.
C28_Witness ==
    /\ ld_lib.name = "magick"
    /\ ld_count = [injected |-> 1, inits |-> 1]
    /\ \A c \in 1..MaxCallers : ld_callers[c] = [st |-> "got", value |-> <<"instance", 1>>]

(***************************************************************************)
(* Luminance statistics: the average of analyze16BitPNG and of             *)
(* _statsFromU12PQ                                                         *)
(*                                                                         *)
(* Both functions thin a picture of more than 8 000 000 pixels to about    *)
(* 4 000 000 samples.  The pictures here are small, so the two figures are *)
(* SampleAbove and SampleTarget.  A pixel is held as its luminance lum in  *)
(* cd/m2, the value the loop adds to totalLum; an average is the fraction  *)
(* <<numerator, denominator>>.                                             *)
(***************************************************************************)
MaxLumPixels == 11
SampleAbove == 8
SampleTarget == 4

\* Math.ceil(a / b) for a >= 0, b > 0
CeilDiv(a, b) == (a + b - 1) \div b

\* sampleStep = numPixels > 8000000 ? Math.ceil(numPixels / 4000000) : 1
SampleStep(numPixels) ==
    IF numPixels > SampleAbove THEN CeilDiv(numPixels, SampleTarget) ELSE 1

\* for (i = 0; i < numPixels; i += sampleStep) totalLum += lum:
\* totalLum and the number of passes of the loop from pixel i on.
RECURSIVE SampleLoop(_, _, _)
SampleLoop(lums, i, step) ==
    IF ~(i < Len(lums)) THEN [totalLum |-> 0, passes |-> 0]
    ELSE LET rest == SampleLoop(lums, i + step, step)
         IN  [totalLum |-> lums[i + 1] + rest.totalLum, passes |-> rest.passes + 1]

\* _statsFromU12PQ: avgLuminance = totalLum / Math.ceil(numPixels / sampleStep)
AvgStatsU12(lums) ==
    LET stepU12 == SampleStep(Len(lums))
    IN  << SampleLoop(lums, 0, stepU12).totalLum, CeilDiv(Len(lums), stepU12) >>

\* analyze16BitPNG: avgLuminance = totalLum / (pixelCount / sampleStep)
AvgAnalyze16(lums) ==
    LET step16 == SampleStep(Len(lums))
    IN  << SampleLoop(lums, 0, step16).totalLum * step16, Len(lums) >>

VARIABLES
    lm_fn,        \* "analyze16BitPNG" | "_statsFromU12PQ"
    lm_lums,      \* the luminance of each pixel
    lm_out,       \* the average reported, and what the loop sampled
    lm_pc         \* "idle" | "start" | "done"

lm_vars == <<lm_fn, lm_lums, lm_out, lm_pc>>

NoAverage == [avgLuminance |-> <<0, 1>>, totalLum |-> 0, passes |-> 0]

\* Pictures: one luminance throughout, a ramp, and a bright first or last pixel.
LumPictures(n) ==
    { [j \in 1..n |-> 100], [j \in 1..n |-> 0], [j \in 1..n |-> 10 * j],
      [j \in 1..n |-> IF j = 1 THEN 1000 ELSE 100],
      [j \in 1..n |-> IF j = n THEN 1000 ELSE 100] }

lm_Init ==
    /\ lm_fn \in {"analyze16BitPNG", "_statsFromU12PQ"}
    /\ \E n \in 1..MaxLumPixels : lm_lums \in LumPictures(n)
    /\ lm_out = NoAverage
    /\ lm_pc = "start"

lm_Idle ==
    /\ lm_fn = ""
    /\ lm_lums = <<>>
    /\ lm_out = NoAverage
    /\ lm_pc = "idle"

\* The sampling loop and the average of the function called.
MeasureLuminance ==
    /\ lm_pc = "start"
    /\ LET sampled == SampleLoop(lm_lums, 0, SampleStep(Len(lm_lums)))
       IN  lm_out' = [avgLuminance |-> IF lm_fn = "analyze16BitPNG"
                                       THEN AvgAnalyze16(lm_lums) ELSE AvgStatsU12(lm_lums),
                      totalLum |-> sampled.totalLum, passes |-> sampled.passes]
    /\ lm_pc' = "done"
    /\ UNCHANGED <<lm_fn, lm_lums>>

\* The pixels the loop visits: every sampleStep-th, from the first one on.
SampledPixels == {j \in 1..Len(lm_lums) : (j - 1) % SampleStep(Len(lm_lums)) = 0}

\* C30: the average reported by analyze16BitPNG and by _statsFromU12PQ is the
\* sum of the luminances of the sampled pixels divided by the number of pixels
\* sampled: avgLuminance * samples = totalLum.
C30_AverageOfSamples ==
    lm_pc = "done" =>
        /\ lm_out.passes = Cardinality(SampledPixels)
        /\ lm_out.avgLuminance[2] > 0
        /\ lm_out.avgLuminance[1] * lm_out.passes = lm_out.totalLum * lm_out.avgLuminance[2]

(***************************************************************************)
(* Specifications                                                          *)
(***************************************************************************)
vars == <<up_vars, png_vars, pk_vars, gm_vars, cv_vars, dc_vars, pr_vars, pf_vars, av_vars, cm_vars, th_vars, sg_vars, rl_vars, wk_vars, ld_vars, lm_vars>>

InitUnpredict == up_Init /\ png_Idle /\ pk_Idle /\ gm_Idle /\ cv_Idle /\ dc_Idle /\ pr_Idle /\ pf_Idle /\ av_Idle /\ cm_Idle /\ th_Idle /\ sg_Idle /\ rl_Idle /\ wk_Idle /\ ld_Idle /\ lm_Idle
NextUnpredict ==
    \/ RefEncode /\ UNCHANGED <<png_vars, pk_vars, gm_vars, cv_vars, dc_vars, pr_vars, pf_vars, av_vars, cm_vars, th_vars, sg_vars, rl_vars, wk_vars, ld_vars, lm_vars>>
    \/ Unpredict /\ UNCHANGED <<png_vars, pk_vars, gm_vars, cv_vars, dc_vars, pr_vars, pf_vars, av_vars, cm_vars, th_vars, sg_vars, rl_vars, wk_vars, ld_vars, lm_vars>>
SpecUnpredict == InitUnpredict /\ [][NextUnpredict]_vars

InitPNG == png_Init /\ up_Idle /\ pk_Idle /\ gm_Idle /\ cv_Idle /\ dc_Idle /\ pr_Idle /\ pf_Idle /\ av_Idle /\ cm_Idle /\ th_Idle /\ sg_Idle /\ rl_Idle /\ wk_Idle /\ ld_Idle /\ lm_Idle
NextPNG ==
    \/ BuildPNG16 /\ UNCHANGED <<up_vars, pk_vars, gm_vars, cv_vars, dc_vars, pr_vars, pf_vars, av_vars, cm_vars, th_vars, sg_vars, rl_vars, wk_vars, ld_vars, lm_vars>>
    \/ ReinjectCICP /\ UNCHANGED <<up_vars, pk_vars, gm_vars, cv_vars, dc_vars, pr_vars, pf_vars, av_vars, cm_vars, th_vars, sg_vars, rl_vars, wk_vars, ld_vars, lm_vars>>
    \/ DecodePixelBuffer /\ UNCHANGED <<up_vars, pk_vars, gm_vars, cv_vars, dc_vars, pr_vars, pf_vars, av_vars, cm_vars, th_vars, sg_vars, rl_vars, wk_vars, ld_vars, lm_vars>>
SpecPNG == InitPNG /\ [][NextPNG]_vars

InitPeak == pk_Init /\ up_Idle /\ png_Idle /\ gm_Idle /\ cv_Idle /\ dc_Idle /\ pr_Idle /\ pf_Idle /\ av_Idle /\ cm_Idle /\ th_Idle /\ sg_Idle /\ rl_Idle /\ wk_Idle /\ ld_Idle /\ lm_Idle
NextPeak ==
    \/ HistogramPass /\ UNCHANGED <<up_vars, png_vars, gm_vars, cv_vars, dc_vars, pr_vars, pf_vars, av_vars, cm_vars, th_vars, sg_vars, rl_vars, wk_vars, ld_vars, lm_vars>>
    \/ EstimatePeak /\ UNCHANGED <<up_vars, png_vars, gm_vars, cv_vars, dc_vars, pr_vars, pf_vars, av_vars, cm_vars, th_vars, sg_vars, rl_vars, wk_vars, ld_vars, lm_vars>>
SpecPeak == InitPeak /\ [][NextPeak]_vars

InitGamut == gm_Init /\ up_Idle /\ png_Idle /\ pk_Idle /\ cv_Idle /\ dc_Idle /\ pr_Idle /\ pf_Idle /\ av_Idle /\ cm_Idle /\ th_Idle /\ sg_Idle /\ rl_Idle /\ wk_Idle /\ ld_Idle /\ lm_Idle
NextGamut ==
    \/ NarrowSource /\ UNCHANGED <<up_vars, png_vars, pk_vars, cv_vars, dc_vars, pr_vars, pf_vars, av_vars, cm_vars, th_vars, sg_vars, rl_vars, wk_vars, ld_vars, lm_vars>>
    \/ ClassifyNext /\ UNCHANGED <<up_vars, png_vars, pk_vars, cv_vars, dc_vars, pr_vars, pf_vars, av_vars, cm_vars, th_vars, sg_vars, rl_vars, wk_vars, ld_vars, lm_vars>>
    \/ ReportCoverage /\ UNCHANGED <<up_vars, png_vars, pk_vars, cv_vars, dc_vars, pr_vars, pf_vars, av_vars, cm_vars, th_vars, sg_vars, rl_vars, wk_vars, ld_vars, lm_vars>>
SpecGamut == InitGamut /\ [][NextGamut]_vars

InitConvert == cv_Init /\ up_Idle /\ png_Idle /\ pk_Idle /\ gm_Idle /\ dc_Idle /\ pr_Idle /\ pf_Idle /\ av_Idle /\ cm_Idle /\ th_Idle /\ sg_Idle /\ rl_Idle /\ wk_Idle /\ ld_Idle /\ lm_Idle
NextConvert ==
    \/ DecodeFails /\ UNCHANGED <<up_vars, png_vars, pk_vars, gm_vars, dc_vars, pr_vars, pf_vars, av_vars, cm_vars, th_vars, sg_vars, rl_vars, wk_vars, ld_vars, lm_vars>>
    \/ EstimateImagePeak /\ UNCHANGED <<up_vars, png_vars, pk_vars, gm_vars, dc_vars, pr_vars, pf_vars, av_vars, cm_vars, th_vars, sg_vars, rl_vars, wk_vars, ld_vars, lm_vars>>
    \/ EncodePixel /\ UNCHANGED <<up_vars, png_vars, pk_vars, gm_vars, dc_vars, pr_vars, pf_vars, av_vars, cm_vars, th_vars, sg_vars, rl_vars, wk_vars, ld_vars, lm_vars>>
    \/ FinishFloat /\ UNCHANGED <<up_vars, png_vars, pk_vars, gm_vars, dc_vars, pr_vars, pf_vars, av_vars, cm_vars, th_vars, sg_vars, rl_vars, wk_vars, ld_vars, lm_vars>>
    \/ PassThroughInteger /\ UNCHANGED <<up_vars, png_vars, pk_vars, gm_vars, dc_vars, pr_vars, pf_vars, av_vars, cm_vars, th_vars, sg_vars, rl_vars, wk_vars, ld_vars, lm_vars>>
    \/ ConvertMagick /\ UNCHANGED <<up_vars, png_vars, pk_vars, gm_vars, dc_vars, pr_vars, pf_vars, av_vars, cm_vars, th_vars, sg_vars, rl_vars, wk_vars, ld_vars, lm_vars>>
SpecConvert == InitConvert /\ [][NextConvert]_vars

InitDecode == dc_Init /\ up_Idle /\ png_Idle /\ pk_Idle /\ gm_Idle /\ cv_Idle /\ pr_Idle /\ pf_Idle /\ av_Idle /\ cm_Idle /\ th_Idle /\ sg_Idle /\ rl_Idle /\ wk_Idle /\ ld_Idle /\ lm_Idle
NextDecode ==
    \/ DecodeRGBE /\ UNCHANGED <<up_vars, png_vars, pk_vars, gm_vars, cv_vars, pr_vars, pf_vars, av_vars, cm_vars, th_vars, sg_vars, rl_vars, wk_vars, ld_vars, lm_vars>>
    \/ ExrParseHeader /\ UNCHANGED <<up_vars, png_vars, pk_vars, gm_vars, cv_vars, pr_vars, pf_vars, av_vars, cm_vars, th_vars, sg_vars, rl_vars, wk_vars, ld_vars, lm_vars>>
    \/ ExrReadChunk /\ UNCHANGED <<up_vars, png_vars, pk_vars, gm_vars, cv_vars, pr_vars, pf_vars, av_vars, cm_vars, th_vars, sg_vars, rl_vars, wk_vars, ld_vars, lm_vars>>
    \/ ExrReturn /\ UNCHANGED <<up_vars, png_vars, pk_vars, gm_vars, cv_vars, pr_vars, pf_vars, av_vars, cm_vars, th_vars, sg_vars, rl_vars, wk_vars, ld_vars, lm_vars>>
    \/ ConvertDecoded /\ UNCHANGED <<up_vars, png_vars, pk_vars, gm_vars, cv_vars, pr_vars, pf_vars, av_vars, cm_vars, th_vars, sg_vars, rl_vars, wk_vars, ld_vars, lm_vars>>
SpecDecode == InitDecode /\ [][NextDecode]_vars

InitProbe == pr_Init /\ up_Idle /\ png_Idle /\ pk_Idle /\ gm_Idle /\ cv_Idle /\ dc_Idle /\ pf_Idle /\ av_Idle /\ cm_Idle /\ th_Idle /\ sg_Idle /\ rl_Idle /\ wk_Idle /\ ld_Idle /\ lm_Idle
NextProbe ==
    \/ ParseCicp /\ UNCHANGED <<up_vars, png_vars, pk_vars, gm_vars, cv_vars, dc_vars, pf_vars, av_vars, cm_vars, th_vars, sg_vars, rl_vars, wk_vars, ld_vars, lm_vars>>
    \/ ParseMetadata /\ UNCHANGED <<up_vars, png_vars, pk_vars, gm_vars, cv_vars, dc_vars, pf_vars, av_vars, cm_vars, th_vars, sg_vars, rl_vars, wk_vars, ld_vars, lm_vars>>
    \/ DetectSdrFiles /\ UNCHANGED <<up_vars, png_vars, pk_vars, gm_vars, cv_vars, dc_vars, pf_vars, av_vars, cm_vars, th_vars, sg_vars, rl_vars, wk_vars, ld_vars, lm_vars>>
SpecProbe == InitProbe /\ [][NextProbe]_vars

InitImport == pf_Init /\ up_Idle /\ png_Idle /\ pk_Idle /\ gm_Idle /\ cv_Idle /\ dc_Idle /\ pr_Idle /\ av_Idle /\ cm_Idle /\ th_Idle /\ sg_Idle /\ rl_Idle /\ wk_Idle /\ ld_Idle /\ lm_Idle
NextImport ==
    \/ SelectFiles /\ UNCHANGED <<up_vars, png_vars, pk_vars, gm_vars, cv_vars, dc_vars, pr_vars, av_vars, cm_vars, th_vars, sg_vars, rl_vars, wk_vars, ld_vars, lm_vars>>
    \/ ImportFile /\ UNCHANGED <<up_vars, png_vars, pk_vars, gm_vars, cv_vars, dc_vars, pr_vars, av_vars, cm_vars, th_vars, sg_vars, rl_vars, wk_vars, ld_vars, lm_vars>>
    \/ FinishImport /\ UNCHANGED <<up_vars, png_vars, pk_vars, gm_vars, cv_vars, dc_vars, pr_vars, av_vars, cm_vars, th_vars, sg_vars, rl_vars, wk_vars, ld_vars, lm_vars>>
    \/ ConvertFile /\ UNCHANGED <<up_vars, png_vars, pk_vars, gm_vars, cv_vars, dc_vars, pr_vars, av_vars, cm_vars, th_vars, sg_vars, rl_vars, wk_vars, ld_vars, lm_vars>>
    \/ StartAdding /\ UNCHANGED <<up_vars, png_vars, pk_vars, gm_vars, cv_vars, dc_vars, pr_vars, av_vars, cm_vars, th_vars, sg_vars, rl_vars, wk_vars, ld_vars, lm_vars>>
    \/ AddFile /\ UNCHANGED <<up_vars, png_vars, pk_vars, gm_vars, cv_vars, dc_vars, pr_vars, av_vars, cm_vars, th_vars, sg_vars, rl_vars, wk_vars, ld_vars, lm_vars>>
    \/ FinishAdding /\ UNCHANGED <<up_vars, png_vars, pk_vars, gm_vars, cv_vars, dc_vars, pr_vars, av_vars, cm_vars, th_vars, sg_vars, rl_vars, wk_vars, ld_vars, lm_vars>>
SpecImport == InitImport /\ [][NextImport]_vars

InitAvif == av_Init /\ up_Idle /\ png_Idle /\ pk_Idle /\ gm_Idle /\ cv_Idle /\ dc_Idle /\ pr_Idle /\ pf_Idle /\ cm_Idle /\ th_Idle /\ sg_Idle /\ rl_Idle /\ wk_Idle /\ ld_Idle /\ lm_Idle
NextAvif ==
    \/ ConvertToAVIF /\ UNCHANGED <<up_vars, png_vars, pk_vars, gm_vars, cv_vars, dc_vars, pr_vars, pf_vars, cm_vars, th_vars, sg_vars, rl_vars, wk_vars, ld_vars, lm_vars>>
    \/ MetadataOfConverted /\ UNCHANGED <<up_vars, png_vars, pk_vars, gm_vars, cv_vars, dc_vars, pr_vars, pf_vars, cm_vars, th_vars, sg_vars, rl_vars, wk_vars, ld_vars, lm_vars>>
    \/ MetadataOfNative /\ UNCHANGED <<up_vars, png_vars, pk_vars, gm_vars, cv_vars, dc_vars, pr_vars, pf_vars, cm_vars, th_vars, sg_vars, rl_vars, wk_vars, ld_vars, lm_vars>>
SpecAvif == InitAvif /\ [][NextAvif]_vars

InitColour == cm_Init /\ up_Idle /\ png_Idle /\ pk_Idle /\ gm_Idle /\ cv_Idle /\ dc_Idle /\ pr_Idle /\ pf_Idle /\ av_Idle /\ th_Idle /\ sg_Idle /\ rl_Idle /\ wk_Idle /\ ld_Idle /\ lm_Idle
NextColour ==
    \/ ApplyToneCurve /\ UNCHANGED <<up_vars, png_vars, pk_vars, gm_vars, cv_vars, dc_vars, pr_vars, pf_vars, av_vars, th_vars, sg_vars, rl_vars, wk_vars, ld_vars, lm_vars>>
    \/ PqRoundTrip /\ UNCHANGED <<up_vars, png_vars, pk_vars, gm_vars, cv_vars, dc_vars, pr_vars, pf_vars, av_vars, th_vars, sg_vars, rl_vars, wk_vars, ld_vars, lm_vars>>
    \/ TransformColour /\ UNCHANGED <<up_vars, png_vars, pk_vars, gm_vars, cv_vars, dc_vars, pr_vars, pf_vars, av_vars, th_vars, sg_vars, rl_vars, wk_vars, ld_vars, lm_vars>>
SpecColour == InitColour /\ [][NextColour]_vars

InitThumb == th_Init /\ up_Idle /\ png_Idle /\ pk_Idle /\ gm_Idle /\ cv_Idle /\ dc_Idle /\ pr_Idle /\ pf_Idle /\ av_Idle /\ cm_Idle /\ sg_Idle /\ rl_Idle /\ wk_Idle /\ ld_Idle /\ lm_Idle
NextThumb ==
    \/ BuildHdrThumb /\ UNCHANGED <<up_vars, png_vars, pk_vars, gm_vars, cv_vars, dc_vars, pr_vars, pf_vars, av_vars, cm_vars, sg_vars, rl_vars, wk_vars, ld_vars, lm_vars>>
SpecThumb == InitThumb /\ [][NextThumb]_vars

InitStages == sg_Init /\ up_Idle /\ png_Idle /\ pk_Idle /\ gm_Idle /\ cv_Idle /\ dc_Idle /\ pr_Idle /\ pf_Idle /\ av_Idle /\ cm_Idle /\ th_Idle /\ rl_Idle /\ wk_Idle /\ ld_Idle /\ lm_Idle
NextStages ==
    \/ StageDecode /\ UNCHANGED <<up_vars, png_vars, pk_vars, gm_vars, cv_vars, dc_vars, pr_vars, pf_vars, av_vars, cm_vars, th_vars, rl_vars, wk_vars, ld_vars, lm_vars>>
    \/ StageEstimatePeak /\ UNCHANGED <<up_vars, png_vars, pk_vars, gm_vars, cv_vars, dc_vars, pr_vars, pf_vars, av_vars, cm_vars, th_vars, rl_vars, wk_vars, ld_vars, lm_vars>>
    \/ StagePerPixel /\ UNCHANGED <<up_vars, png_vars, pk_vars, gm_vars, cv_vars, dc_vars, pr_vars, pf_vars, av_vars, cm_vars, th_vars, rl_vars, wk_vars, ld_vars, lm_vars>>
    \/ StageEncodeHDR /\ UNCHANGED <<up_vars, png_vars, pk_vars, gm_vars, cv_vars, dc_vars, pr_vars, pf_vars, av_vars, cm_vars, th_vars, rl_vars, wk_vars, ld_vars, lm_vars>>
    \/ StageEncodeSDR /\ UNCHANGED <<up_vars, png_vars, pk_vars, gm_vars, cv_vars, dc_vars, pr_vars, pf_vars, av_vars, cm_vars, th_vars, rl_vars, wk_vars, ld_vars, lm_vars>>
    \/ StageEncodeThumb /\ UNCHANGED <<up_vars, png_vars, pk_vars, gm_vars, cv_vars, dc_vars, pr_vars, pf_vars, av_vars, cm_vars, th_vars, rl_vars, wk_vars, ld_vars, lm_vars>>
    \/ StageThrows /\ UNCHANGED <<up_vars, png_vars, pk_vars, gm_vars, cv_vars, dc_vars, pr_vars, pf_vars, av_vars, cm_vars, th_vars, rl_vars, wk_vars, ld_vars, lm_vars>>
    \/ ConversionReturns /\ UNCHANGED <<up_vars, png_vars, pk_vars, gm_vars, cv_vars, dc_vars, pr_vars, pf_vars, av_vars, cm_vars, th_vars, rl_vars, wk_vars, ld_vars, lm_vars>>
SpecStages == InitStages /\ [][NextStages]_vars

InitScanline == rl_Init /\ up_Idle /\ png_Idle /\ pk_Idle /\ gm_Idle /\ cv_Idle /\ dc_Idle /\ pr_Idle /\ pf_Idle /\ av_Idle /\ cm_Idle /\ th_Idle /\ sg_Idle /\ wk_Idle /\ ld_Idle /\ lm_Idle
NextScanline ==
    \/ DecodeScanline /\ UNCHANGED <<up_vars, png_vars, pk_vars, gm_vars, cv_vars, dc_vars, pr_vars, pf_vars, av_vars, cm_vars, th_vars, sg_vars, wk_vars, ld_vars, lm_vars>>
SpecScanline == InitScanline /\ [][NextScanline]_vars

InitColourTag == pr_Init /\ up_Idle /\ png_Idle /\ pk_Idle /\ gm_Idle /\ cv_Idle /\ dc_Idle /\ pf_Idle /\ av_Idle /\ cm_Idle /\ th_Idle /\ sg_Idle /\ rl_Idle /\ wk_Idle /\ ld_Idle /\ lm_Idle
NextColourTag ==
    \/ ParseBoth /\ UNCHANGED <<up_vars, png_vars, pk_vars, gm_vars, cv_vars, dc_vars, pf_vars, av_vars, cm_vars, th_vars, sg_vars, rl_vars, wk_vars, ld_vars, lm_vars>>
SpecColourTag == InitColourTag /\ [][NextColourTag]_vars

InitWorker == wk_Init /\ up_Idle /\ png_Idle /\ pk_Idle /\ gm_Idle /\ cv_Idle /\ dc_Idle /\ pr_Idle /\ pf_Idle /\ av_Idle /\ cm_Idle /\ th_Idle /\ sg_Idle /\ rl_Idle /\ ld_Idle /\ lm_Idle
NextWorker ==
    \/ StartCall /\ UNCHANGED <<up_vars, png_vars, pk_vars, gm_vars, cv_vars, dc_vars, pr_vars, pf_vars, av_vars, cm_vars, th_vars, sg_vars, rl_vars, ld_vars, lm_vars>>
    \/ WorkerStep /\ UNCHANGED <<up_vars, png_vars, pk_vars, gm_vars, cv_vars, dc_vars, pr_vars, pf_vars, av_vars, cm_vars, th_vars, sg_vars, rl_vars, ld_vars, lm_vars>>
    \/ MessageEvent /\ UNCHANGED <<up_vars, png_vars, pk_vars, gm_vars, cv_vars, dc_vars, pr_vars, pf_vars, av_vars, cm_vars, th_vars, sg_vars, rl_vars, ld_vars, lm_vars>>
    \/ ErrorEvent /\ UNCHANGED <<up_vars, png_vars, pk_vars, gm_vars, cv_vars, dc_vars, pr_vars, pf_vars, av_vars, cm_vars, th_vars, sg_vars, rl_vars, ld_vars, lm_vars>>
SpecWorker == InitWorker /\ [][NextWorker]_vars

InitLoader == ld_Init /\ up_Idle /\ png_Idle /\ pk_Idle /\ gm_Idle /\ cv_Idle /\ dc_Idle /\ pr_Idle /\ pf_Idle /\ av_Idle /\ cm_Idle /\ th_Idle /\ sg_Idle /\ rl_Idle /\ wk_Idle /\ lm_Idle
NextLoader ==
    \/ CallLoader /\ UNCHANGED <<up_vars, png_vars, pk_vars, gm_vars, cv_vars, dc_vars, pr_vars, pf_vars, av_vars, cm_vars, th_vars, sg_vars, rl_vars, wk_vars, lm_vars>>
    \/ ScriptLoaded /\ UNCHANGED <<up_vars, png_vars, pk_vars, gm_vars, cv_vars, dc_vars, pr_vars, pf_vars, av_vars, cm_vars, th_vars, sg_vars, rl_vars, wk_vars, lm_vars>>
    \/ ScriptFailed /\ UNCHANGED <<up_vars, png_vars, pk_vars, gm_vars, cv_vars, dc_vars, pr_vars, pf_vars, av_vars, cm_vars, th_vars, sg_vars, rl_vars, wk_vars, lm_vars>>
    \/ WasmUrlReady /\ UNCHANGED <<up_vars, png_vars, pk_vars, gm_vars, cv_vars, dc_vars, pr_vars, pf_vars, av_vars, cm_vars, th_vars, sg_vars, rl_vars, wk_vars, lm_vars>>
    \/ WasmUrlFailed /\ UNCHANGED <<up_vars, png_vars, pk_vars, gm_vars, cv_vars, dc_vars, pr_vars, pf_vars, av_vars, cm_vars, th_vars, sg_vars, rl_vars, wk_vars, lm_vars>>
    \/ InitDone /\ UNCHANGED <<up_vars, png_vars, pk_vars, gm_vars, cv_vars, dc_vars, pr_vars, pf_vars, av_vars, cm_vars, th_vars, sg_vars, rl_vars, wk_vars, lm_vars>>
    \/ InitFailed /\ UNCHANGED <<up_vars, png_vars, pk_vars, gm_vars, cv_vars, dc_vars, pr_vars, pf_vars, av_vars, cm_vars, th_vars, sg_vars, rl_vars, wk_vars, lm_vars>>
    \/ CallerReceives /\ UNCHANGED <<up_vars, png_vars, pk_vars, gm_vars, cv_vars, dc_vars, pr_vars, pf_vars, av_vars, cm_vars, th_vars, sg_vars, rl_vars, wk_vars, lm_vars>>
SpecLoader == InitLoader /\ [][NextLoader]_vars

InitLuminance == lm_Init /\ up_Idle /\ png_Idle /\ pk_Idle /\ gm_Idle /\ cv_Idle /\ dc_Idle /\ pr_Idle /\ pf_Idle /\ av_Idle /\ cm_Idle /\ th_Idle /\ sg_Idle /\ rl_Idle /\ wk_Idle /\ ld_Idle
NextLuminance ==
    \/ MeasureLuminance /\ UNCHANGED <<up_vars, png_vars, pk_vars, gm_vars, cv_vars, dc_vars, pr_vars, pf_vars, av_vars, cm_vars, th_vars, sg_vars, rl_vars, wk_vars, ld_vars>>
SpecLuminance == InitLuminance /\ [][NextLuminance]_vars

InitEightBit ==
    \/ cv_Init /\ up_Idle /\ png_Idle /\ pk_Idle /\ gm_Idle /\ dc_Idle /\ pr_Idle /\ pf_Idle /\ av_Idle /\ cm_Idle /\ th_Idle /\ sg_Idle /\ rl_Idle /\ wk_Idle /\ ld_Idle /\ lm_Idle
    \/ png_Init /\ up_Idle /\ pk_Idle /\ gm_Idle /\ cv_Idle /\ dc_Idle /\ pr_Idle /\ pf_Idle /\ av_Idle /\ cm_Idle /\ th_Idle /\ sg_Idle /\ rl_Idle /\ wk_Idle /\ ld_Idle /\ lm_Idle
NextEightBit ==
    \/ DecodeFails /\ UNCHANGED <<up_vars, png_vars, pk_vars, gm_vars, dc_vars, pr_vars, pf_vars, av_vars, cm_vars, th_vars, sg_vars, rl_vars, wk_vars, ld_vars, lm_vars>>
    \/ PassThroughInteger /\ UNCHANGED <<up_vars, png_vars, pk_vars, gm_vars, dc_vars, pr_vars, pf_vars, av_vars, cm_vars, th_vars, sg_vars, rl_vars, wk_vars, ld_vars, lm_vars>>
    \/ EstimateImagePeak /\ UNCHANGED <<up_vars, png_vars, pk_vars, gm_vars, dc_vars, pr_vars, pf_vars, av_vars, cm_vars, th_vars, sg_vars, rl_vars, wk_vars, ld_vars, lm_vars>>
    \/ EncodePixel /\ UNCHANGED <<up_vars, png_vars, pk_vars, gm_vars, dc_vars, pr_vars, pf_vars, av_vars, cm_vars, th_vars, sg_vars, rl_vars, wk_vars, ld_vars, lm_vars>>
    \/ FinishFloat /\ UNCHANGED <<up_vars, png_vars, pk_vars, gm_vars, dc_vars, pr_vars, pf_vars, av_vars, cm_vars, th_vars, sg_vars, rl_vars, wk_vars, ld_vars, lm_vars>>
    \/ ConvertMagick /\ UNCHANGED <<up_vars, png_vars, pk_vars, gm_vars, dc_vars, pr_vars, pf_vars, av_vars, cm_vars, th_vars, sg_vars, rl_vars, wk_vars, ld_vars, lm_vars>>
    \/ BuildPNG16 /\ UNCHANGED <<up_vars, pk_vars, gm_vars, cv_vars, dc_vars, pr_vars, pf_vars, av_vars, cm_vars, th_vars, sg_vars, rl_vars, wk_vars, ld_vars, lm_vars>>
    \/ ReinjectCICP /\ UNCHANGED <<up_vars, pk_vars, gm_vars, cv_vars, dc_vars, pr_vars, pf_vars, av_vars, cm_vars, th_vars, sg_vars, rl_vars, wk_vars, ld_vars, lm_vars>>
    \/ DecodePixelBuffer /\ UNCHANGED <<up_vars, pk_vars, gm_vars, cv_vars, dc_vars, pr_vars, pf_vars, av_vars, cm_vars, th_vars, sg_vars, rl_vars, wk_vars, ld_vars, lm_vars>>
SpecEightBit == InitEightBit /\ [][NextEightBit]_vars

=============================================================================
